---------------------------- MODULE Spec2Model ----------------------------
(***************************************************************************)
(* A model of the sumcheck round-evaluation engine                         *)
(* (crates/hal/src/sumcheck_round_calculation.rs) and of the univariate    *)
(* evaluation domains (crates/math/src/univariate.rs).                     *)
(*                                                                         *)
(* Field elements are the integers 0..15, read as the binary tower field   *)
(* GF(16) = GF(4)[X1]/(X1^2 + X1*X0 + 1) over GF(4) = GF(2)[X0]/(X0^2+X0+1)*)
(* with the element a_lo + a_hi*X1 stored as a_lo + 4*a_hi.  The domain    *)
(* field FDomain is the subfield GF(4) = 0..3.                             *)
(***************************************************************************)
EXTENDS Integers, Sequences, FiniteSets, TLC

(***************************************************************************)
(* Bounds of the model.                                                    *)
(***************************************************************************)
MaxDomainSize == 3

MaxNVars == 3

MaxLogWidth == 1

NumPartitions == 2

\* The largest P::LOG_WIDTH of a lone access method call.
MaxAccessLogWidth == 2

\* The largest size asked of an evaluation domain factory: one more than
\* the largest field has elements.
MaxFactorySize == 17

\* The largest number of inner oracles of a composite, and the largest
\* arity of its composition.
MaxInner == 3

\* The largest n_vars of an IndexComposition.
MaxOuter == 3

\* The largest length of a query handed to MixColumn and SBoxConstraint.
MaxQueryLen == 10

(***************************************************************************)
(* Generic helpers.                                                        *)
(***************************************************************************)
RECURSIVE Pow2(_)
Pow2(n) == IF n <= 0 THEN 1 ELSE 2 * Pow2(n - 1)

SatSub(a, b) == IF a > b THEN a - b ELSE 0

Min(a, b) == IF a < b THEN a ELSE b

Max(a, b) == IF a > b THEN a ELSE b

DivCeil(a, b) == (a + b - 1) \div b

\* The indices 0..n-1 of a Rust slice of length n.
Idx(n) == 0 .. (n - 1)

\* Rust slices are 0-based, sequences are 1-based.
At(s, i) == s[i + 1]

SeqOf(n, f(_)) == [i \in 1..n |-> f(i - 1)]

(***************************************************************************)
(* The binary tower field.                                                 *)
(***************************************************************************)
F == 0..15

FDomain == 0..3

ZERO == 0

ONE == 1

RECURSIVE XorBits(_, _)
XorBits(a, b) ==
    IF a = 0 THEN b
    ELSE IF b = 0 THEN a
    ELSE ((a + b) % 2) + 2 * XorBits(a \div 2, b \div 2)

AddTable == [a \in F |-> [b \in F |-> XorBits(a, b)]]

\* Addition and subtraction of a field of characteristic 2.
Add(a, b) == AddTable[a][b]

Sub(a, b) == AddTable[a][b]

\* GF(4): X0 = 2 and X0^2 = X0 + 1.
Mul4(a, b) ==
    LET a0 == a % 2
        a1 == a \div 2
        b0 == b % 2
        b1 == b \div 2
        hh == a1 * b1
        lo == (a0 * b0 + hh) % 2
        hi == (a0 * b1 + a1 * b0 + hh) % 2
    IN lo + 2 * hi

\* GF(16): X1^2 = X1*X0 + 1.
TowerMul(a, b) ==
    LET alo == a % 4
        ahi == a \div 4
        blo == b % 4
        bhi == b \div 4
        hh == Mul4(ahi, bhi)
        lo == XorBits(Mul4(alo, blo), hh)
        hi == XorBits(XorBits(Mul4(alo, bhi), Mul4(ahi, blo)), Mul4(hh, 2))
    IN lo + 4 * hi

MulTable == [a \in F |-> [b \in F |-> TowerMul(a, b)]]

Mul(a, b) == MulTable[a][b]

\* Field::invert: an Option, <<>> for None (the argument is zero) and
\* <<b>> for Some(b).
InvertTable ==
    [a \in F |-> IF a = ZERO THEN <<>> ELSE <<CHOOSE b \in F : Mul(a, b) = ONE>>]

Invert(a) == InvertTable[a]

RECURSIVE SumSeq(_)
SumSeq(s) == IF Len(s) = 0 THEN ZERO ELSE Add(Head(s), SumSeq(Tail(s)))

RECURSIVE ProductSeq(_)
ProductSeq(s) == IF Len(s) = 0 THEN ONE ELSE Mul(Head(s), ProductSeq(Tail(s)))

\* mul_by_subfield_scalar on one scalar: the extension element is cast to
\* its two GF(4) coordinates, each is multiplied by the subfield scalar,
\* and the result is cast back.
MulBySubfieldScalar(val, multiplier) ==
    Mul4(val % 4, multiplier) + 4 * Mul4(val \div 4, multiplier)

(***************************************************************************)
(* crates/math/src/univariate.rs                                           *)
(***************************************************************************)
VARIABLES
    points_in,     \* the Vec<F> handed to EvaluationDomain::from_points
    domain,        \* the Result of from_points
    interp,        \* the InterpolationDomain built from the domain
    call,          \* the last extrapolate / interpolate call and its result
    call_in,           \* the arguments of a calculate_round_evals call
    pc,            \* "idle", "entry", "fold", "done" or "err"
    todo,          \* the subcube indices not folded yet
    parts,         \* the ParFoldStates of every fold partition
    live,          \* the partitions whose accumulators are not reduced away
    suffix_calls,  \* the arguments of every process_constant_eval_suffix call
    result,        \* the Result calculate_round_evals returned
    access_in,     \* the arguments of a subcube_evaluations call
    access_out,    \* the Result and the buffers after that call
    args,          \* the receiver and arguments of a constructor or method call
    ret            \* what that call returned

domain_vars == <<points_in, domain, interp, call>>

round_vars == <<call_in, pc, todo, parts, live, suffix_calls, result>>

access_vars == <<access_in, access_out>>

call_vars == <<args, ret>>

vars == <<domain_vars, round_vars, access_vars, call_vars>>

NoResult == [ok |-> FALSE, err |-> "none", round_evals |-> <<>>]

\* No round calculation is under way.
RoundIdle ==
    /\ call_in = [order |-> "none"]
    /\ pc = "idle"
    /\ todo = {}
    /\ parts = <<>>
    /\ live = {}
    /\ suffix_calls = <<>>
    /\ result = NoResult

\* No access method call is under way.
AccessIdle ==
    /\ access_in = [order |-> "none"]
    /\ access_out = [err |-> "idle"]

Pending == [state |-> "pending"]

\* No constructor or method call is under way.
CallIdle ==
    /\ args = [fn |-> "none"]
    /\ ret = [state |-> "idle"]

\* A variant of WeightProduct that takes the product over j > i only.
WeightProduct_LaterOnly(points, i) ==
    LET n == Len(points)
        js == SelectSeq(SeqOf(n, LAMBDA j : j), LAMBDA j : j > i)
    IN ProductSeq([k \in 1..Len(js) |-> Sub(At(points, i), At(points, js[k]))])

\* The barycentric weight of point i, before inversion: the product over
\* j # i of points[i] - points[j].
WeightProduct(points, i) ==
    LET n == Len(points)
        js == SelectSeq(SeqOf(n, LAMBDA j : j), LAMBDA j : j # i)
    IN ProductSeq([k \in 1..Len(js) |-> Sub(At(points, i), At(points, js[k]))])

\* compute_barycentric_weights: the weights, or the error of the first
\* product that has no inverse.
compute_barycentric_weights(points) ==
    LET n == Len(points)
        inv == SeqOf(n, LAMBDA i : Invert(WeightProduct(points, i)))
    IN IF \E i \in 1..n : inv[i] = <<>>
       THEN [ok |-> FALSE, err |-> "DuplicateDomainPoint"]
       ELSE [ok |-> TRUE, weights |-> [i \in 1..n |-> inv[i][1]]]

\* EvaluationDomain::from_points
from_points(points) ==
    LET w == compute_barycentric_weights(points)
    IN IF w.ok
       THEN [ok |-> TRUE, points |-> points, weights |-> w.weights]
       ELSE [ok |-> FALSE, err |-> w.err]

\* A variant of ExtrapolateFold that adds val without the partial product.
RECURSIVE ExtrapolateFold_NoPartialProd(_, _, _, _, _, _)
ExtrapolateFold_NoPartialProd(weighted, points, x, i, eval, terms_partial_prod) ==
    IF i > Len(points) THEN eval
    ELSE LET term == Sub(x, points[i])
             next_eval == Add(Mul(eval, term), weighted[i])
         IN ExtrapolateFold_NoPartialProd(weighted, points, x, i + 1, next_eval,
                                          terms_partial_prod)

\* The fold of EvaluationDomain::extrapolate from position i on, with the
\* accumulator (eval, terms_partial_prod).
RECURSIVE ExtrapolateFold(_, _, _, _, _, _)
ExtrapolateFold(weighted, points, x, i, eval, terms_partial_prod) ==
    IF i > Len(points) THEN eval
    ELSE LET term == Sub(x, points[i])
             next_eval == Add(Mul(eval, term), Mul(weighted[i], terms_partial_prod))
             next_terms_partial_prod == Mul(terms_partial_prod, term)
         IN ExtrapolateFold(weighted, points, x, i + 1, next_eval,
                            next_terms_partial_prod)

\* EvaluationDomain::extrapolate
extrapolate(dom, values, x) ==
    IF Len(values) # Len(dom.points)
    THEN [ok |-> FALSE, err |-> "ExtrapolateNumberOfEvaluations"]
    ELSE LET weighted_values ==
                 [i \in 1..Len(values) |->
                     MulBySubfieldScalar(values[i], dom.weights[i])]
         IN [ok |-> TRUE,
             val |-> ExtrapolateFold(weighted_values, dom.points, x, 1, ZERO, ONE)]

\* evaluate_univariate: Horner's method over the reversed coefficients.
\* extrapolate_line on one scalar
extrapolate_line(x0, x1, z) == Add(x0, MulBySubfieldScalar(Sub(x1, x0), z))

extrapolate_line_scalar(x0, x1, z) == Add(x0, Mul(Sub(x1, x0), z))

RECURSIVE HornerFold(_, _, _, _)
HornerFold(coeffs, x, i, eval) ==
    IF i < 1 THEN eval
    ELSE HornerFold(coeffs, x, i - 1, Add(Mul(eval, x), coeffs[i]))

evaluate_univariate(coeffs, x) ==
    IF Len(coeffs) = 0 THEN ZERO
    ELSE HornerFold(coeffs, x, Len(coeffs) - 1, coeffs[Len(coeffs)])

\* A variant of VandermondeAcc whose first column is x_i instead of ONE.
RECURSIVE VandermondeAcc_FromX(_, _)
VandermondeAcc_FromX(x_i, j) ==
    IF j = 0 THEN x_i ELSE Mul(VandermondeAcc_FromX(x_i, j - 1), x_i)

\* The running power acc of row i of the Vandermonde matrix at column j.
RECURSIVE VandermondeAcc(_, _)
VandermondeAcc(x_i, j) ==
    IF j = 0 THEN ONE ELSE Mul(VandermondeAcc(x_i, j - 1), x_i)

\* vandermonde: mat[(i, j)] = xs[i]^j, a sequence of rows.
vandermonde(xs) ==
    LET n == Len(xs)
    IN SeqOf(n, LAMBDA i : SeqOf(n, LAMBDA j : VandermondeAcc(At(xs, i), j)))

\* Matrix::inverse_into by Gauss-Jordan elimination on the rows of
\* [mat | id]: column k is cleared with the first row at or below k that
\* has a nonzero entry in it.  Not ok when the matrix is singular.
ScaleRow(row, c) == [j \in 1..Len(row) |-> Mul(row[j], c)]

AddScaledRow(row, other, c) == [j \in 1..Len(row) |-> Add(row[j], Mul(other[j], c))]

RECURSIVE GaussJordan(_, _)
GaussJordan(aug, k) ==
    LET n == Len(aug)
    IN IF k > n THEN [ok |-> TRUE, rows |-> aug]
       ELSE LET cand == {r \in k..n : aug[r][k] # ZERO}
            IN IF cand = {} THEN [ok |-> FALSE, rows |-> <<>>]
               ELSE LET p == CHOOSE r \in cand : \A q \in cand : r <= q
                        swapped == [aug EXCEPT ![k] = aug[p], ![p] = aug[k]]
                        pivot == ScaleRow(swapped[k], Invert(swapped[k][k])[1])
                        cleared ==
                            [r \in 1..n |->
                                IF r = k THEN pivot
                                ELSE AddScaledRow(swapped[r], pivot, swapped[r][k])]
                    IN GaussJordan(cleared, k + 1)

inverse_into(mat) ==
    LET n == Len(mat)
        aug == [i \in 1..n |->
                   [j \in 1..(2 * n) |->
                       IF j <= n THEN mat[i][j]
                       ELSE IF j - n = i THEN ONE ELSE ZERO]]
        red == GaussJordan(aug, 1)
    IN IF ~red.ok THEN [ok |-> FALSE]
       ELSE [ok |-> TRUE,
             mat |-> [i \in 1..n |-> [j \in 1..n |-> red.rows[i][j + n]]]]

\* Matrix::mul_vec_into: out[i] = sum over j of mat[(i, j)] * x[j].
mul_vec_into(mat, x) ==
    [i \in 1..Len(mat) |->
        SumSeq([j \in 1..Len(x) |-> Mul(mat[i][j], x[j])])]

\* From<EvaluationDomain<F>> for InterpolationDomain<F>.  The expect()
\* on a singular matrix is the outcome "panic".
InterpolationDomainFrom(evaluation_domain) ==
    LET evaluation_matrix == vandermonde(evaluation_domain.points)
        inv == inverse_into(evaluation_matrix)
    IN IF inv.ok
       THEN [ok |-> TRUE,
             evaluation_domain |-> evaluation_domain,
             interpolation_matrix |-> inv.mat]
       ELSE [ok |-> FALSE, err |-> "panic"]

\* InterpolationDomain::interpolate
interpolate(idom, values) ==
    IF Len(values) # Len(idom.evaluation_domain.points)
    THEN [ok |-> FALSE, err |-> "ExtrapolateNumberOfEvaluations"]
    ELSE [ok |-> TRUE, val |-> mul_vec_into(idom.interpolation_matrix, values)]

(***************************************************************************)
(* The univariate domain as a state machine: a domain is built from a      *)
(* point list, turned into an interpolation domain, and used.              *)
(***************************************************************************)
RECURSIVE SeqsUpTo(_, _)
SeqsUpTo(S, n) ==
    IF n = 0 THEN {<<>>}
    ELSE LET shorter == SeqsUpTo(S, n - 1)
         IN shorter \cup {Append(s, x) : s \in {t \in shorter : Len(t) = n - 1}, x \in S}

SeqsOfLen(S, n) == {s \in SeqsUpTo(S, n) : Len(s) = n}

\* The coefficients and values are drawn from these extension-field
\* elements: two of the subfield and two outside it.
CoeffValues == {0, 1, 6, 13}

NoCall == [op |-> "none"]

DomainIdle ==
    /\ points_in = <<>>
    /\ domain = [ok |-> FALSE, err |-> "unbuilt"]
    /\ interp = [ok |-> FALSE, err |-> "unbuilt"]
    /\ call = NoCall

DomainInit ==
    /\ RoundIdle
    /\ AccessIdle
    /\ CallIdle
    /\ points_in \in SeqsUpTo(FDomain, MaxDomainSize)
    /\ domain = [ok |-> FALSE, err |-> "unbuilt"]
    /\ interp = [ok |-> FALSE, err |-> "unbuilt"]
    /\ call = NoCall

FromPoints ==
    /\ domain = [ok |-> FALSE, err |-> "unbuilt"]
    /\ domain' = from_points(points_in)
    /\ UNCHANGED <<points_in, interp, call, round_vars, access_vars, call_vars>>

IntoInterpolationDomain ==
    /\ domain.ok
    /\ ~interp.ok
    /\ interp' = InterpolationDomainFrom(domain)
    /\ UNCHANGED <<points_in, domain, call, round_vars, access_vars, call_vars>>

\* The values of the polynomial with coefficients c on the domain points.
EvalOnDomain(c, points) == [i \in 1..Len(points) |-> evaluate_univariate(c, points[i])]

Extrapolate ==
    /\ domain.ok
    /\ call.op = "none"
    /\ \E c \in SeqsOfLen(CoeffValues, Len(domain.points)), x \in F :
          LET values == EvalOnDomain(c, domain.points)
          IN call' = [op |-> "extrapolate", coeffs |-> c, values |-> values,
                      x |-> x, out |-> extrapolate(domain, values, x)]
    /\ UNCHANGED <<points_in, domain, interp, round_vars, access_vars, call_vars>>

Interpolate ==
    /\ interp.ok
    /\ call.op = "none"
    /\ \E c \in SeqsOfLen(CoeffValues, Len(domain.points)) :
          LET values == EvalOnDomain(c, domain.points)
          IN call' = [op |-> "interpolate", coeffs |-> c, values |-> values,
                      x |-> ZERO, out |-> interpolate(interp, values)]
    /\ UNCHANGED <<points_in, domain, interp, round_vars, access_vars, call_vars>>

(***************************************************************************)
(* crates/math/src/univariate.rs: the evaluation domain factories.         *)
(* The step field of a factory is "BinaryField2b" (GF(4), the elements     *)
(* 0..3), "BinaryField4b" (GF(16), the elements 0..15) or "Polynomial4b"   *)
(* (GF(16) in the basis 1, x, x^2, x^3 of GF(2)[x] / (x^4 + x + 1), which  *)
(* stands for a field whose conversion into the domain field is an         *)
(* isomorphism that changes the representation, as the conversion between  *)
(* the binary tower and the AES tower does).                               *)
(***************************************************************************)
FieldOrder(step_field) == IF step_field = "BinaryField2b" THEN 4 ELSE 16

\* A variant of forward_checked that wraps around at the end of the field.
forward_checked_Wrapping(step_field, pred, count) ==
    <<(pred + count) % FieldOrder(step_field)>>

\* Step::forward_checked of a binary field: an Option, <<>> for None when
\* the successor leaves the field.
forward_checked(step_field, pred, count) ==
    IF pred + count < FieldOrder(step_field) THEN <<pred + count>> ELSE <<>>

\* iter::successors(Some(F::ZERO), |&pred| F::forward_checked(pred, 1))
\* .take(size), from the Option cur on.
RECURSIVE Successors(_, _, _)
Successors(step_field, cur, size) ==
    IF size = 0 \/ cur = <<>> THEN <<>>
    ELSE <<cur[1]>> \o Successors(step_field, forward_checked(step_field, cur[1], 1),
                                  size - 1)

make_evaluation_points(step_field, size) ==
    LET points == Successors(step_field, <<ZERO>>, size)
    IN IF Len(points) # size
       THEN [ok |-> FALSE, err |-> "DomainSizeTooLarge"]
       ELSE [ok |-> TRUE, points |-> points]

RECURSIVE PowF(_, _)
PowF(a, n) == IF n = 0 THEN ONE ELSE Mul(a, PowF(a, n - 1))

\* The image of x under the conversion from Polynomial4b: a root of
\* x^4 + x + 1 in the tower.
IsoGenerator == CHOOSE g \in F : Add(Add(PowF(g, 4), g), ONE) = ZERO

\* DomainField::from(DomainFieldWithStep): the subfield embedding of the
\* tower keeps the coordinates; the conversion from Polynomial4b sends the
\* coordinate of x^i to the coordinate of IsoGenerator^i.
Convert(step_field, a) ==
    IF step_field = "Polynomial4b"
    THEN SumSeq([i \in 1..4 |-> IF (a \div Pow2(i - 1)) % 2 = 1
                                THEN PowF(IsoGenerator, i - 1) ELSE ZERO])
    ELSE a

\* DefaultEvaluationDomainFactory::create
DefaultCreate(step_field, size) ==
    LET made == make_evaluation_points(step_field, size)
    IN IF made.ok THEN from_points(made.points) ELSE made

\* IsomorphicEvaluationDomainFactory::create
IsomorphicCreate(step_field, size) ==
    LET made == make_evaluation_points(step_field, size)
    IN IF made.ok
       THEN from_points([i \in 1..Len(made.points) |-> Convert(step_field, made.points[i])])
       ELSE made

FactoryInputs ==
    {[fn |-> "create", factory |-> k[1], step_field |-> k[2], size |-> n] :
        k \in {<<"Default", "BinaryField2b">>, <<"Default", "BinaryField4b">>,
               <<"Isomorphic", "BinaryField2b">>, <<"Isomorphic", "Polynomial4b">>},
        n \in 0..MaxFactorySize}

FactoryInit ==
    /\ DomainIdle
    /\ RoundIdle
    /\ AccessIdle
    /\ args \in FactoryInputs
    /\ ret = Pending

CreateDefault ==
    /\ ret = Pending
    /\ args.factory = "Default"
    /\ ret' = DefaultCreate(args.step_field, args.size)
    /\ UNCHANGED <<args, domain_vars, round_vars, access_vars>>

CreateIsomorphic ==
    /\ ret = Pending
    /\ args.factory = "Isomorphic"
    /\ ret' = IsomorphicCreate(args.step_field, args.size)
    /\ UNCHANGED <<args, domain_vars, round_vars, access_vars>>

(***************************************************************************)
(* crates/hal/src/sumcheck_round_calculation.rs: packed field elements.    *)
(* A packed element P is the sequence of its 1 << LOG_WIDTH scalars.       *)
(***************************************************************************)
Width(lw) == Pow2(lw)

\* P::broadcast
Broadcast(lw, scalar) == [l \in 1..Width(lw) |-> scalar]

\* zeroed_vec(len)
zeroed_vec(lw, len) == [k \in 1..len |-> Broadcast(lw, ZERO)]

\* get_packed_slice_checked: Some(scalar) when index is inside the slice.
get_packed_slice_checked(lw, evals, index) ==
    IF index < Len(evals) * Width(lw)
    THEN <<evals[(index \div Width(lw)) + 1][(index % Width(lw)) + 1]>>
    ELSE <<>>

\* Option::unwrap_or
UnwrapOr(opt, default) == IF opt = <<>> THEN default ELSE opt[1]

\* P::unzip(a, b, 0): the even lanes of a then of b, and the odd lanes of
\* a then of b.
Unzip(lw, a, b) ==
    LET half == Width(lw) \div 2
    IN << [l \in 1..Width(lw) |->
              IF l <= half THEN a[2 * (l - 1) + 1] ELSE b[2 * (l - half - 1) + 1]],
          [l \in 1..Width(lw) |->
              IF l <= half THEN a[2 * (l - 1) + 2] ELSE b[2 * (l - half - 1) + 2]] >>

\* a | b on usize.
RECURSIVE BitOr(_, _)
BitOr(a, b) ==
    IF a = 0 THEN b
    ELSE IF b = 0 THEN a
    ELSE (IF a % 2 = 1 \/ b % 2 = 1 THEN 1 ELSE 0) + 2 * BitOr(a \div 2, b \div 2)

Shl(a, n) == a * Pow2(n)

(***************************************************************************)
(* Multilinears.  A Transparent multilinear is the table of its            *)
(* evaluations on the hypercube, little endian; a Folded one is a prefix   *)
(* of packed evaluations and the scalar suffix_eval of the rest.           *)
(***************************************************************************)
\* MultilinearPoly::subcube_evals with log_embedding 0: the evaluations
\* at the hypercube indices (subcube_index << subcube_vars) | j, the
\* lanes past 1 << subcube_vars of a lone packed element zero.
subcube_evals(lw, table, subcube_vars, subcube_index) ==
    [k \in 1..Pow2(SatSub(subcube_vars, lw)) |->
        [l \in 1..Width(lw) |->
            LET j == (k - 1) * Width(lw) + (l - 1)
            IN IF j < Pow2(subcube_vars)
               THEN table[BitOr(Shl(subcube_index, subcube_vars), j) + 1]
               ELSE ZERO]]

\* The table contracted against the tensor query on its lowest variables.
PartialLowTable(table, query) ==
    [x \in 1..(Len(table) \div Len(query)) |->
        SumSeq([q \in 1..Len(query) |->
                   Mul(query[q], table[(x - 1) * Len(query) + q])])]

\* The table contracted against the tensor query on its highest variables.
PartialHighTable(table, query) ==
    LET rest == Len(table) \div Len(query)
    IN [x \in 1..rest |->
           SumSeq([q \in 1..Len(query) |->
                      Mul(query[q], table[(q - 1) * rest + x])])]

\* MultilinearPoly::subcube_partial_low_evals
subcube_partial_low_evals(lw, table, query, subcube_vars, subcube_index) ==
    subcube_evals(lw, PartialLowTable(table, query), subcube_vars, subcube_index)

\* MultilinearPoly::subcube_partial_high_evals
subcube_partial_high_evals(lw, table, query, subcube_vars, subcube_index) ==
    subcube_evals(lw, PartialHighTable(table, query), subcube_vars, subcube_index)

\* MultilinearQueryRef::n_vars of a tensor expansion.
RECURSIVE Log2(_)
Log2(n) == IF n <= 1 THEN 0 ELSE 1 + Log2(n \div 2)

QueryNVars(query) == Log2(Len(query))

(***************************************************************************)
(* The access methods.  Each returns the error (or "none") and the three   *)
(* buffers after the call.                                                 *)
(***************************************************************************)
AccessResult(err, scratch_space, evals_0, evals_1) ==
    [err |-> err, scratch_space |-> scratch_space,
     evals_0 |-> evals_0, evals_1 |-> evals_1]

\* LowToHighAccess::scratch_space_len
LowToHighScratchLen(lw, subcube_vars) == <<Pow2(SatSub(subcube_vars + 1, lw))>>

\* HighToLowAccess::scratch_space_len
HighToLowScratchLen(lw, subcube_vars) == <<>>

\* The scratch space of LowToHighAccess after the multilinear was read.
LowToHighFill(lw, multilinear, subcube_vars, subcube_index, tensor_query, scratch) ==
    IF multilinear.kind = "Transparent"
    THEN IF QueryNVars(tensor_query) = 0
         THEN subcube_evals(lw, multilinear.table, subcube_vars + 1, subcube_index)
         ELSE subcube_partial_low_evals(lw, multilinear.table, tensor_query,
                                        subcube_vars + 1, subcube_index)
    ELSE LET evals == multilinear.evals
             suffix_eval == multilinear.suffix_eval
         IN IF subcube_vars + 1 >= lw
            THEN LET packed_log_size == subcube_vars + 1 - lw
                     offset == Shl(subcube_index, packed_log_size)
                     packed_len == Min(Pow2(packed_log_size),
                                       SatSub(Len(evals), offset))
                 IN [k \in 1..Len(scratch) |->
                        IF k <= packed_len THEN evals[offset + k]
                        ELSE Broadcast(lw, suffix_eval)]
            ELSE LET only_packed ==
                         [l \in 1..Width(lw) |->
                             IF l - 1 < Pow2(subcube_vars + 1)
                             THEN UnwrapOr(
                                      get_packed_slice_checked(lw, evals,
                                          BitOr(Shl(subcube_index, subcube_vars + 1),
                                                l - 1)),
                                      suffix_eval)
                             ELSE ZERO]
                 IN [scratch EXCEPT ![1] = only_packed]

\* A variant of LowToHighTuples without the case of a lone scratch
\* element: a lone element makes no tuple.
LowToHighTuples_NoLoneCase(lw, scratch) ==
    [t \in 1..(Len(scratch) \div 2) |-> <<scratch[2 * t - 1], scratch[2 * t]>>]

\* The deinterleaving at the end of LowToHighAccess::subcube_evaluations:
\* the (interleaved_0, interleaved_1) tuples, each unzipped.
LowToHighTuples(lw, scratch) ==
    IF Len(scratch) = 1
    THEN << <<scratch[1], Broadcast(lw, ZERO)>> >>
    ELSE [t \in 1..(Len(scratch) \div 2) |-> <<scratch[2 * t - 1], scratch[2 * t]>>]

\* A variant of Deinterleave that never unzips.
Deinterleave_NoUnzip(lw, tuple) == tuple

Deinterleave(lw, tuple) ==
    IF lw > 0 THEN Unzip(lw, tuple[1], tuple[2]) ELSE tuple

\* LowToHighAccess::subcube_evaluations
LowToHighAccess(lw, multilinear, subcube_vars, subcube_index, index_vars, tensor_query, scratch_space, evals_0, evals_1) ==
    IF scratch_space = <<>>
    THEN AccessResult("NoScratchSpace", scratch_space, evals_0, evals_1)
    ELSE IF \/ Len(scratch_space[1]) # Pow2(SatSub(subcube_vars + 1, lw))
            \/ Len(evals_0) # Pow2(SatSub(subcube_vars, lw))
            \/ Len(evals_1) # Pow2(SatSub(subcube_vars, lw))
    THEN AccessResult("IncorrectDestSliceLengths", scratch_space, evals_0, evals_1)
    ELSE LET scratch == LowToHighFill(lw, multilinear, subcube_vars, subcube_index,
                                      tensor_query, scratch_space[1])
             tuples == LowToHighTuples(lw, scratch)
             n == Min(Len(tuples), Min(Len(evals_0), Len(evals_1)))
         IN AccessResult("none", <<scratch>>,
                [k \in 1..Len(evals_0) |->
                    IF k <= n THEN Deinterleave(lw, tuples[k])[1] ELSE evals_0[k]],
                [k \in 1..Len(evals_1) |->
                    IF k <= n THEN Deinterleave(lw, tuples[k])[2] ELSE evals_1[k]])

\* A variant of HighToLowFoldedWide that fills the remainder with zeros.
HighToLowFoldedWide_ZeroFill(lw, evals, suffix_eval, packed_log_size, offset, dst) ==
    LET packed_len == Min(Pow2(packed_log_size), SatSub(Len(evals), offset))
    IN [k \in 1..Len(dst) |->
           IF k <= packed_len THEN evals[offset + k] ELSE Broadcast(lw, ZERO)]

\* One destination of HighToLowAccess for a Folded multilinear: the read
\* at packed offset (wide subcubes) or at scalar index base | i (narrow).
HighToLowFoldedWide(lw, evals, suffix_eval, packed_log_size, offset, dst) ==
    LET packed_len == Min(Pow2(packed_log_size), SatSub(Len(evals), offset))
    IN [k \in 1..Len(dst) |->
           IF k <= packed_len THEN evals[offset + k] ELSE Broadcast(lw, suffix_eval)]

\* A variant of HighToLowFoldedNarrow that reads at i instead of base | i.
HighToLowFoldedNarrow_NoBase(lw, evals, suffix_eval, subcube_vars, base, dst) ==
    [dst EXCEPT ![1] =
        [l \in 1..Width(lw) |->
            IF l - 1 < Pow2(subcube_vars)
            THEN UnwrapOr(get_packed_slice_checked(lw, evals, l - 1), suffix_eval)
            ELSE ZERO]]

HighToLowFoldedNarrow(lw, evals, suffix_eval, subcube_vars, base, dst) ==
    [dst EXCEPT ![1] =
        [l \in 1..Width(lw) |->
            IF l - 1 < Pow2(subcube_vars)
            THEN UnwrapOr(get_packed_slice_checked(lw, evals, BitOr(base, l - 1)),
                          suffix_eval)
            ELSE ZERO]]

\* HighToLowAccess::subcube_evaluations
HighToLowAccess(lw, multilinear, subcube_vars, subcube_index, index_vars, tensor_query, scratch_space, evals_0, evals_1) ==
    IF \/ Len(evals_0) # Pow2(SatSub(subcube_vars, lw))
       \/ Len(evals_1) # Pow2(SatSub(subcube_vars, lw))
    THEN AccessResult("IncorrectDestSliceLengths", scratch_space, evals_0, evals_1)
    ELSE IF multilinear.kind = "Transparent"
    THEN LET high_index == BitOr(subcube_index, Shl(1, index_vars))
         IN IF QueryNVars(tensor_query) = 0
            THEN AccessResult("none", scratch_space,
                     subcube_evals(lw, multilinear.table, subcube_vars, subcube_index),
                     subcube_evals(lw, multilinear.table, subcube_vars, high_index))
            ELSE AccessResult("none", scratch_space,
                     subcube_partial_high_evals(lw, multilinear.table, tensor_query,
                                                subcube_vars, subcube_index),
                     subcube_partial_high_evals(lw, multilinear.table, tensor_query,
                                                subcube_vars, high_index))
    ELSE LET evals == multilinear.evals
             suffix_eval == multilinear.suffix_eval
         IN IF subcube_vars >= lw
            THEN LET packed_log_size == subcube_vars - lw
                     offset_0 == Shl(subcube_index, packed_log_size)
                     offset_1 == BitOr(offset_0, Shl(1, index_vars + packed_log_size))
                 IN AccessResult("none", scratch_space,
                        HighToLowFoldedWide(lw, evals, suffix_eval, packed_log_size,
                                            offset_0, evals_0),
                        HighToLowFoldedWide(lw, evals, suffix_eval, packed_log_size,
                                            offset_1, evals_1))
            ELSE LET index_0 == Shl(subcube_index, subcube_vars)
                     index_1 == BitOr(index_0, Shl(1, index_vars + subcube_vars))
                 IN AccessResult("none", scratch_space,
                        HighToLowFoldedNarrow(lw, evals, suffix_eval, subcube_vars,
                                              index_0, evals_0),
                        HighToLowFoldedNarrow(lw, evals, suffix_eval, subcube_vars,
                                              index_1, evals_1))

\* The access method selected by calculate_round_evals.
subcube_evaluations(order, lw, multilinear, subcube_vars, subcube_index, index_vars, tensor_query, scratch_space, evals_0, evals_1) ==
    IF order = "LowToHigh"
    THEN LowToHighAccess(lw, multilinear, subcube_vars, subcube_index, index_vars,
                         tensor_query, scratch_space, evals_0, evals_1)
    ELSE HighToLowAccess(lw, multilinear, subcube_vars, subcube_index, index_vars,
                         tensor_query, scratch_space, evals_0, evals_1)

scratch_space_len(order, lw, subcube_vars) ==
    IF order = "LowToHigh" THEN LowToHighScratchLen(lw, subcube_vars)
    ELSE HighToLowScratchLen(lw, subcube_vars)

(***************************************************************************)
(* Compositions and evaluators.  A composition is a sequence of monomials, *)
(* each the sequence of the (0-based) multilinears it multiplies; <<>> is  *)
(* the constant one.  An evaluator is a record                             *)
(*   [comp, lo, hi, suffix]                                                *)
(* of its composition, its eval_point_indices lo..hi (hi excluded) and its *)
(* const_eval_suffix.                                                      *)
(***************************************************************************)
MonomialEval(mono, row) == ProductSeq([k \in 1..Len(mono) |-> row[mono[k] + 1]])

\* CompositionPoly::evaluate
CompositionEval(comp, row) ==
    SumSeq([t \in 1..Len(comp) |-> MonomialEval(comp[t], row)])

RECURSIVE MaxLen(_)
MaxLen(comp) ==
    IF Len(comp) = 0 THEN 0 ELSE Max(Len(Head(comp)), MaxLen(Tail(comp)))

\* CompositionPoly::degree
Degree(comp) == MaxLen(comp)

\* The leading (top degree) part of the composition, evaluated at the
\* infinity point.
LeadingTerm(comp) == SelectSeq(comp, LAMBDA mono : Len(mono) = Degree(comp))

\* ArithExpr::vars_usage: one flag per variable of the composition.
vars_usage(comp, n_multilinears) ==
    [i \in 1..n_multilinears |->
        \E t \in 1..Len(comp) : \E k \in 1..Len(comp[t]) : comp[t][k] = i - 1]

\* eval_point_indices().len()
RangeLen(evaluator) == SatSub(evaluator.hi, evaluator.lo)

\* eval_point_indices().contains(&i)
RangeContains(evaluator, i) == evaluator.lo <= i /\ i < evaluator.hi

\* SumcheckEvaluator::process_subcube_at_eval_point: the composition (its
\* leading term at the infinity point) evaluated lane by lane on every row
\* of the batch, the rows summed.
process_subcube_at_eval_point(evaluator, lw, is_infinity_point, batch, row_len) ==
    LET comp == IF is_infinity_point THEN LeadingTerm(evaluator.comp)
                ELSE evaluator.comp
    IN [l \in 1..Width(lw) |->
           SumSeq([r \in 1..row_len |->
                      CompositionEval(comp, [m \in 1..Len(batch) |-> batch[m][r][l]])])]

\* The sum of count copies of a field element.
ScalarTimes(count, value) == IF count % 2 = 1 THEN value ELSE ZERO

\* SumcheckEvaluator::process_constant_eval_suffix: the composition on
\* the constant tail values of the multilinears, once per point of the
\* suffix; at the infinity point the multilinears' differences on the tail
\* are zero.  An evaluator without a constant suffix returns zero.
process_constant_eval_suffix(evaluator, tail, const_eval_suffix, is_infinity_point) ==
    IF evaluator.suffix = 0 THEN ZERO
    ELSE IF is_infinity_point
    THEN ScalarTimes(const_eval_suffix,
                     CompositionEval(LeadingTerm(evaluator.comp),
                                     [m \in 1..Len(tail) |-> ZERO]))
    ELSE ScalarTimes(const_eval_suffix, CompositionEval(evaluator.comp, tail))

(***************************************************************************)
(* calculate_round_evals_with_access: the values computed before the fold. *)
(* rin is the record of the call's arguments                               *)
(*   [order, n_vars, log_width, subcube_vars, tensor_query, multilinears,  *)
(*    evaluators, points]                                                  *)
(* with log_width the packing P::LOG_WIDTH and subcube_vars the value      *)
(* returned by subcube_vars_for_bits.                                      *)
(***************************************************************************)
\* A variant of UnionRange that looks at the first evaluator only.
UnionRange_FirstOnly(evaluators) ==
    IF Len(evaluators) = 0 THEN [lo |-> 0, hi |-> 0]
    ELSE [lo |-> evaluators[1].lo, hi |-> evaluators[1].hi]

\* The union of all evaluation point index ranges, 0..0 without evaluators.
RECURSIVE UnionRange(_)
UnionRange(evaluators) ==
    IF Len(evaluators) = 0 THEN [lo |-> 0, hi |-> 0]
    ELSE IF Len(evaluators) = 1
    THEN [lo |-> evaluators[1].lo, hi |-> evaluators[1].hi]
    ELSE LET range1 == UnionRange(SubSeq(evaluators, 1, Len(evaluators) - 1))
             range2 == evaluators[Len(evaluators)]
         IN [lo |-> Min(range1.lo, range2.lo), hi |-> Max(range1.hi, range2.hi)]

subcube_count_by_evaluator(rin) ==
    [k \in 1..Len(rin.evaluators) |->
        DivCeil(Pow2(rin.n_vars - 1) - rin.evaluators[k].suffix,
                Pow2(rin.subcube_vars))]

\* A variant of MultilinearCount that takes the count of evaluator k alone.
MultilinearCount_LastOnly(rin, i, k) ==
    IF k = 0 THEN 0
    ELSE IF vars_usage(rin.evaluators[k].comp, Len(rin.multilinears))[i]
    THEN subcube_count_by_evaluator(rin)[k]
    ELSE 0

\* The maximum of the counts of the evaluators 1..k whose composition
\* uses multilinear i.
RECURSIVE MultilinearCount(_, _, _)
MultilinearCount(rin, i, k) ==
    IF k = 0 THEN 0
    ELSE LET before == MultilinearCount(rin, i, k - 1)
             used_vars == vars_usage(rin.evaluators[k].comp, Len(rin.multilinears))
         IN IF used_vars[i] THEN Max(before, subcube_count_by_evaluator(rin)[k])
            ELSE before

subcube_count_by_multilinear(rin) ==
    [i \in 1..Len(rin.multilinears) |-> MultilinearCount(rin, i, Len(rin.evaluators))]

index_vars(rin) == rin.n_vars - 1 - rin.subcube_vars

row_len(rin) == Pow2(SatSub(rin.subcube_vars, rin.log_width))

(***************************************************************************)
(* ParFoldStates: the state of one fold partition.  handed, accessed and   *)
(* last are history: the batch last handed to the evaluators at each point *)
(* index, the multilinears read through the access method for the subcube  *)
(* index last processed, and that index (-1 before the first).             *)
(***************************************************************************)
\* A variant of MultilinearEvalsNew sized in scalars, not packed elements.
MultilinearEvalsNew_Unpacked(lw, subcube_vars) ==
    [evals_0 |-> zeroed_vec(lw, Pow2(subcube_vars)),
     evals_1 |-> zeroed_vec(lw, Pow2(subcube_vars)),
     evals_z |-> zeroed_vec(lw, Pow2(subcube_vars))]

\* MultilinearEvals::new
MultilinearEvalsNew(lw, subcube_vars) ==
    LET len == Pow2(SatSub(subcube_vars, lw))
    IN [evals_0 |-> zeroed_vec(lw, len),
        evals_1 |-> zeroed_vec(lw, len),
        evals_z |-> zeroed_vec(lw, len)]

\* ParFoldStates::new
ParFoldStatesNew(rin) ==
    LET len == scratch_space_len(rin.order, rin.log_width, rin.subcube_vars)
    IN [multilinear_evals |->
            [i \in 1..Len(rin.multilinears) |->
                MultilinearEvalsNew(rin.log_width, rin.subcube_vars)],
        scratch_space |->
            IF len = <<>> THEN <<>> ELSE <<zeroed_vec(rin.log_width, len[1])>>,
        round_evals |->
            [k \in 1..Len(rin.evaluators) |->
                zeroed_vec(rin.log_width, RangeLen(rin.evaluators[k]))],
        handed |-> <<>>,
        accessed |-> {},
        last |-> -1,
        err |-> "none"]

\* The loop over the multilinears at the head of the fold body, from
\* multilinear i on: every multilinear whose subcube count exceeds
\* subcube_index is read through the access method.
RECURSIVE AccessMultilinears(_, _, _, _)
AccessMultilinears(rin, st, subcube_idx, i) ==
    IF i > Len(rin.multilinears) \/ st.err # "none" THEN st
    ELSE IF subcube_idx < subcube_count_by_multilinear(rin)[i]
    THEN LET evals == st.multilinear_evals[i]
             res == subcube_evaluations(rin.order, rin.log_width,
                        rin.multilinears[i], rin.subcube_vars, subcube_idx,
                        index_vars(rin), rin.tensor_query, st.scratch_space,
                        evals.evals_0, evals.evals_1)
         IN AccessMultilinears(rin,
                [st EXCEPT !.err = res.err,
                           !.accessed = @ \cup {i},
                           !.scratch_space = res.scratch_space,
                           !.multilinear_evals[i].evals_0 = res.evals_0,
                           !.multilinear_evals[i].evals_1 = res.evals_1],
                subcube_idx, i + 1)
    ELSE AccessMultilinears(rin, st, subcube_idx, i + 1)

\* A variant of ExtrapolateLinesCast whose line starts at eval_1.
ExtrapolateLinesCast_FromEval1(eval_0, eval_1, z) ==
    LET line(c0, c1) == XorBits(c1, Mul4(XorBits(c1, c0), z))
    IN line(eval_0 % 4, eval_1 % 4) + 4 * line(eval_0 \div 4, eval_1 \div 4)

\* extrapolate_lines on the base-field cast of one scalar: each GF(4)
\* coordinate c0 of eval_0 and c1 of eval_1 gives c0 + (c1 - c0) * z.
ExtrapolateLinesCast(eval_0, eval_1, z) ==
    LET line(c0, c1) == XorBits(c0, Mul4(XorBits(c1, c0), z))
    IN line(eval_0 % 4, eval_1 % 4) + 4 * line(eval_0 \div 4, eval_1 \div 4)

\* A variant of EvalsZBuffer that takes evals_1 at the infinity point.
EvalsZBuffer_InfinityIsEvals1(rin, evals, accessed, eval_point_index) ==
    IF ~accessed \/ eval_point_index < 2 THEN evals.evals_z
    ELSE IF eval_point_index = 2 THEN evals.evals_1
    ELSE LET eval_point == At(rin.points, eval_point_index - 3)
         IN [k \in 1..Len(evals.evals_z) |->
                [l \in 1..Width(rin.log_width) |->
                    ExtrapolateLinesCast(evals.evals_0[k][l], evals.evals_1[k][l],
                                         eval_point)]]

\* The evals_z buffer of one multilinear after evals_z_iter reached it at
\* eval_point_index.
EvalsZBuffer(rin, evals, accessed, eval_point_index) ==
    IF ~accessed \/ eval_point_index < 2 THEN evals.evals_z
    ELSE IF eval_point_index = 2
    THEN [k \in 1..Len(evals.evals_z) |->
             [l \in 1..Width(rin.log_width) |->
                 Sub(evals.evals_1[k][l], evals.evals_0[k][l])]]
    ELSE LET eval_point == At(rin.points, eval_point_index - 3)
         IN [k \in 1..Len(evals.evals_z) |->
                [l \in 1..Width(rin.log_width) |->
                    ExtrapolateLinesCast(evals.evals_0[k][l], evals.evals_1[k][l],
                                         eval_point)]]

\* The slice evals_z_iter yields for one multilinear.
EvalsZSlice(evals, accessed, eval_point_index) ==
    IF ~accessed THEN evals.evals_0
    ELSE IF eval_point_index = 0 THEN evals.evals_0
    ELSE IF eval_point_index = 1 THEN evals.evals_1
    ELSE evals.evals_z

\* A variant of EvaluatorActive without the subcube count bound.
EvaluatorActive_NoCount(rin, k, subcube_idx, eval_point_index) ==
    RangeContains(rin.evaluators[k], eval_point_index)

\* Whether the evaluator takes part at this point of this subcube.
EvaluatorActive(rin, k, subcube_idx, eval_point_index) ==
    /\ RangeContains(rin.evaluators[k], eval_point_index)
    /\ subcube_idx < subcube_count_by_evaluator(rin)[k]

\* The body of the loop over eval_point_indices for one eval_point_index.
PointStep(rin, st, subcube_idx, eval_point_index) ==
    LET is_infinity_point == eval_point_index = 2
        counts == subcube_count_by_multilinear(rin)
        new_evals ==
            [i \in 1..Len(rin.multilinears) |->
                [st.multilinear_evals[i] EXCEPT
                    !.evals_z = EvalsZBuffer(rin, st.multilinear_evals[i],
                                             subcube_idx < counts[i],
                                             eval_point_index)]]
        evals_z ==
            [i \in 1..Len(rin.multilinears) |->
                EvalsZSlice(new_evals[i], subcube_idx < counts[i], eval_point_index)]
        new_round_evals ==
            [k \in 1..Len(rin.evaluators) |->
                IF ~EvaluatorActive(rin, k, subcube_idx, eval_point_index)
                THEN st.round_evals[k]
                ELSE LET j == eval_point_index - rin.evaluators[k].lo + 1
                         add == process_subcube_at_eval_point(rin.evaluators[k],
                                    rin.log_width, is_infinity_point, evals_z,
                                    row_len(rin))
                     IN [st.round_evals[k] EXCEPT
                            ![j] = [l \in 1..Width(rin.log_width) |->
                                       Add(st.round_evals[k][j][l], add[l])]]]
    IN [st EXCEPT !.multilinear_evals = new_evals,
                  !.round_evals = new_round_evals,
                  !.handed = Append(st.handed,
                                    [point |-> eval_point_index, batch |-> evals_z])]

\* The loop over eval_point_indices, from eval_point_index on.
RECURSIVE PointLoop(_, _, _, _)
PointLoop(rin, st, subcube_idx, eval_point_index) ==
    IF eval_point_index >= UnionRange(rin.evaluators).hi THEN st
    ELSE PointLoop(rin, PointStep(rin, st, subcube_idx, eval_point_index),
                   subcube_idx, eval_point_index + 1)

\* The fold closure: one subcube_index folded into a partition's state.
FoldBody(rin, par_fold_states, subcube_idx) ==
    LET read == AccessMultilinears(rin,
                    [par_fold_states EXCEPT !.handed = <<>>, !.accessed = {},
                                            !.last = subcube_idx],
                    subcube_idx, 1)
    IN IF read.err # "none" THEN read
       ELSE PointLoop(rin, read, subcube_idx, UnionRange(rin.evaluators).lo)

\* The reducer: lhs_vals[j] += rhs_vals[j], the zip as long as the shorter.
ReduceAccumulators(lhs, rhs) ==
    [k \in 1..Min(Len(lhs), Len(rhs)) |->
        [j \in 1..Len(lhs[k]) |->
            IF j <= Len(rhs[k])
            THEN [l \in 1..Len(lhs[k][j]) |-> Add(lhs[k][j][l], rhs[k][j][l])]
            ELSE lhs[k][j]]]

\* The const_eval_suffix handed to process_constant_eval_suffix.
PassedSuffix(rin, k) ==
    Pow2(rin.n_vars) - Shl(subcube_count_by_evaluator(rin)[k], rin.subcube_vars)

\* The constant tail value of every multilinear: its evaluation at the
\* last point of the hypercube.
LastScalar(rin, multilinear) ==
    IF multilinear.kind = "Transparent"
    THEN LET t == IF rin.order = "LowToHigh"
                  THEN PartialLowTable(multilinear.table, rin.tensor_query)
                  ELSE PartialHighTable(multilinear.table, rin.tensor_query)
         IN t[Len(t)]
    ELSE UnwrapOr(get_packed_slice_checked(rin.log_width, multilinear.evals,
                                           Pow2(rin.n_vars) - 1),
                  multilinear.suffix_eval)

TailValues(rin) ==
    [i \in 1..Len(rin.multilinears) |-> LastScalar(rin, rin.multilinears[i])]

\* The final map over (packed_accumulators, evaluators, counts): the
\* lanes below 1 << subcube_vars of every accumulator summed, then the
\* constant suffix added along izip!(eval_point_indices, round_evals)
\* with eval_point_indices the union range.
FinalRoundEvals(rin, packed_accumulators) ==
    [k \in 1..Min(Len(packed_accumulators), Len(rin.evaluators)) |->
        LET evaluator == rin.evaluators[k]
            union == UnionRange(rin.evaluators)
            covered == SatSub(union.hi, union.lo)
        IN [j \in 1..Len(packed_accumulators[k]) |->
               LET packed == packed_accumulators[k][j]
                   taken == Min(Len(packed), Pow2(rin.subcube_vars))
                   lanes == SumSeq(SubSeq(packed, 1, taken))
                   eval_point_index == union.lo + j - 1
               IN IF j <= covered
                  THEN Add(lanes,
                           process_constant_eval_suffix(evaluator, TailValues(rin),
                               PassedSuffix(rin, k), eval_point_index = 2))
                  ELSE lanes]]

(***************************************************************************)
(* calculate_round_evals as a state machine.  The 1 << index_vars subcube  *)
(* indices are folded into NumPartitions partition states in any split and *)
(* any order, the partitions' accumulators are reduced in any order, and   *)
(* the final map produces the round evaluations.                           *)
(***************************************************************************)
\* The evaluations of a multilinear over its n_vars variables, the tensor
\* query applied: what the round sums over.
FullTable(order, lw, n_vars, tensor_query, multilinear) ==
    IF multilinear.kind = "Transparent"
    THEN IF order = "LowToHigh"
         THEN PartialLowTable(multilinear.table, tensor_query)
         ELSE PartialHighTable(multilinear.table, tensor_query)
    ELSE [i \in 1..Pow2(n_vars) |->
             UnwrapOr(get_packed_slice_checked(lw, multilinear.evals, i - 1),
                      multilinear.suffix_eval)]

\* The restriction of the round's variable to z = 0 or z = 1 at point x of
\* the remaining hypercube.
Restrict(order, n_vars, table, z, x) ==
    IF order = "LowToHigh" THEN table[2 * x + z + 1]
    ELSE table[x + z * Pow2(n_vars - 1) + 1]

\* The contract of const_eval_suffix: every multilinear the composition
\* uses is one constant on the last suffix points, for z = 0 and z = 1.
TailConstant(order, lw, n_vars, tensor_query, multilinears, comp, suffix) ==
    \A i \in 1..Len(multilinears) :
        vars_usage(comp, Len(multilinears))[i] =>
            LET t == FullTable(order, lw, n_vars, tensor_query, multilinears[i])
            IN \A x \in (Pow2(n_vars - 1) - suffix)..(Pow2(n_vars - 1) - 1) :
                   \A z \in {0, 1} :
                       Restrict(order, n_vars, t, z, x) = t[Len(t)]

\* The evaluation tables the inputs are built from.
TableOf(t, n_vars) ==
    [i \in 1..Pow2(n_vars) |-> ((i * i * (2 * t + 1)) \div 2 + 7 * i + 3 * t) % 16]

\* A table as packed elements, a lone packed element zero past the table.
PackTable(lw, table) ==
    [k \in 1..Max(1, Len(table) \div Width(lw)) |->
        [l \in 1..Width(lw) |->
            LET j == (k - 1) * Width(lw) + l
            IN IF j <= Len(table) THEN table[j] ELSE ZERO]]

TransparentOf(t, n_vars, tensor_query) ==
    [kind |-> "Transparent", table |-> TableOf(t, n_vars + QueryNVars(tensor_query))]

FoldedOf(t, lw, n_vars, prefix_len) ==
    [kind |-> "Folded",
     evals |-> SubSeq(PackTable(lw, TableOf(t, n_vars)), 1, prefix_len),
     suffix_eval |-> (5 * t + 4) % 16]

\* The pairs of multilinears of a call: tables, or short prefixes.
MultilinearPairs(lw, n_vars, tensor_query) ==
    { <<TransparentOf(1, n_vars, tensor_query), TransparentOf(2, n_vars, tensor_query)>>,
      <<TransparentOf(1, n_vars, tensor_query), FoldedOf(2, lw, n_vars, 0)>>,
      <<FoldedOf(1, lw, n_vars, 1), TransparentOf(2, n_vars, tensor_query)>>,
      <<FoldedOf(1, lw, n_vars, 1), FoldedOf(2, lw, n_vars, 0)>>,
      <<FoldedOf(1, lw, n_vars, 0), FoldedOf(2, lw, n_vars, 1)>> }

CompX0 == << <<0>> >>

CompSum == << <<0>>, <<1>> >>

CompAffine == << <<1>>, <<>> >>

CompOne == << <<>> >>

CompQuadratic == << <<0, 1>>, <<0>> >>

\* The sizes subcube_vars_for_bits may return: at least one inner
\* variable when there is one.
SubcubeVarsChoices(n_vars) ==
    {v \in 0..(n_vars - 1) : v >= Min(1, n_vars - 1)}

SuffixChoices(order, lw, n_vars, subcube_vars, tensor_query, multilinears, comp) ==
    {s \in {0, 1, Pow2(subcube_vars), Pow2(n_vars - 1)} :
        TailConstant(order, lw, n_vars, tensor_query, multilinears, comp, s)}

EvaluatorChoices(comps, ranges, order, lw, n_vars, subcube_vars, tensor_query, multilinears) ==
    UNION {{[comp |-> c, lo |-> r[1], hi |-> r[2], suffix |-> s] :
               s \in SuffixChoices(order, lw, n_vars, subcube_vars, tensor_query,
                                   multilinears, c)} :
           c \in comps, r \in ranges}

EvaluatorLists(order, lw, n_vars, subcube_vars, tensor_query, multilinears) ==
    LET first == EvaluatorChoices(
                     {CompOne, CompSum, CompAffine, CompQuadratic},
                     {<<0, 3>>, <<0, 4>>},
                     order, lw, n_vars, subcube_vars, tensor_query, multilinears)
        second == {[comp |-> CompX0, lo |-> r[1], hi |-> r[2], suffix |-> 0] :
                      r \in {<<1, 3>>, <<0, 5>>}}
        below == [comp |-> CompX0, lo |-> 0, hi |-> 2, suffix |-> 0]
    IN {<<>>, <<below>>} \cup {<<a>> : a \in first}
         \cup {<<a, b>> : a \in {e \in first : e.hi = 3}, b \in second}

\* The finite evaluation points 2, 3, 2, 3, ...: of the length the
\* evaluators need, one more, and one less.
PointsOfLen(n) == [i \in 1..n |-> 2 + ((i - 1) % 2)]

\* Calls with at most one evaluator are also given one point too many and
\* one too few.
PointsChoices(evaluators) ==
    LET need == SatSub(UnionRange(evaluators).hi, 3)
    IN {PointsOfLen(n) :
           n \in IF Len(evaluators) <= 1 THEN {need, need + 1, SatSub(need, 1)}
                 ELSE {need}}

TensorQueryChoices == {<<ONE>>, <<Add(ONE, 6), 6>>}

\* The calls with one order, size, packing, subcube size and tensor query.
RoundInputsOf(o, n, lw, sv, tq) ==
    UNION {UNION {
        {[order |-> o, n_vars |-> n, log_width |-> lw, subcube_vars |-> sv,
          tensor_query |-> tq, multilinears |-> ms,
          evaluators |-> evs, points |-> pts] :
              pts \in PointsChoices(evs)} :
          evs \in EvaluatorLists(o, lw, n, sv, tq, ms)} :
        ms \in MultilinearPairs(lw, n, tq)}

RoundInputs ==
    UNION {UNION {RoundInputsOf(o, n, lw, sv, tq) : sv \in SubcubeVarsChoices(n)} :
              o \in {"LowToHigh", "HighToLow"}, n \in 1..MaxNVars,
              lw \in 0..MaxLogWidth, tq \in TensorQueryChoices}

RoundInit ==
    /\ DomainIdle
    /\ AccessIdle
    /\ CallIdle
    /\ call_in \in RoundInputs
    /\ pc = "entry"
    /\ todo = {}
    /\ parts = <<>>
    /\ live = {}
    /\ suffix_calls = <<>>
    /\ result = NoResult

\* The entry of calculate_round_evals_with_access up to the fold: the
\* check of the number of finite evaluation points, then the fold states.
Start ==
    /\ pc = "entry"
    /\ IF Len(call_in.points) # SatSub(UnionRange(call_in.evaluators).hi, 3)
       THEN /\ pc' = "err"
            /\ result' = [ok |-> FALSE, err |-> "IncorrectNontrivialEvalPointsLength",
                          round_evals |-> <<>>]
            /\ UNCHANGED <<todo, parts, live>>
       ELSE /\ pc' = "fold"
            /\ todo' = Idx(Pow2(index_vars(call_in)))
            /\ parts' = [p \in 1..NumPartitions |-> ParFoldStatesNew(call_in)]
            /\ live' = 1..NumPartitions
            /\ UNCHANGED result
    /\ UNCHANGED <<call_in, suffix_calls, domain_vars, access_vars, call_vars>>

\* One partition folds one subcube index.
Fold(p, subcube_idx) ==
    /\ pc = "fold"
    /\ subcube_idx \in todo
    /\ LET st == FoldBody(call_in, parts[p], subcube_idx)
       IN /\ parts' = [parts EXCEPT ![p] = st]
          /\ IF st.err # "none"
             THEN /\ pc' = "err"
                  /\ result' = [ok |-> FALSE, err |-> st.err, round_evals |-> <<>>]
             ELSE UNCHANGED <<pc, result>>
    /\ todo' = todo \ {subcube_idx}
    /\ UNCHANGED <<call_in, live, suffix_calls, domain_vars, access_vars, call_vars>>

\* try_reduce combines the accumulators of two partitions.
Reduce(a, b) ==
    /\ pc = "fold"
    /\ todo = {}
    /\ a \in live /\ b \in live /\ a # b
    /\ parts' = [parts EXCEPT ![a].round_evals =
                    ReduceAccumulators(parts[a].round_evals, parts[b].round_evals)]
    /\ live' = live \ {b}
    /\ UNCHANGED <<call_in, pc, todo, suffix_calls, result, domain_vars, access_vars, call_vars>>

\* The arguments of the process_constant_eval_suffix calls of the final map.
SuffixCalls(r, packed_accumulators) ==
    LET union == UnionRange(r.evaluators)
    IN [k \in 1..Min(Len(packed_accumulators), Len(r.evaluators)) |->
           [j \in 1..Min(Len(packed_accumulators[k]), SatSub(union.hi, union.lo)) |->
               [const_eval_suffix |-> PassedSuffix(r, k),
                is_infinity_point |-> (union.lo + j - 1 = 2)]]]

\* The last accumulator left is mapped to the round evaluations.
Finish ==
    /\ pc = "fold"
    /\ todo = {}
    /\ \E a \in live :
          /\ live = {a}
          /\ suffix_calls' = SuffixCalls(call_in, parts[a].round_evals)
          /\ result' = [ok |-> TRUE, err |-> "none",
                        round_evals |-> FinalRoundEvals(call_in, parts[a].round_evals)]
    /\ pc' = "done"
    /\ UNCHANGED <<call_in, todo, parts, live, domain_vars, access_vars, call_vars>>

(***************************************************************************)
(* One call of an access method on its own: the multilinear is a table or  *)
(* a Folded prefix of any length, and the buffers come in with the         *)
(* contents a previous subcube left.                                       *)
(***************************************************************************)
\* The number of packed elements of a fully materialized Folded multilinear.
FullLen(lw, n_vars) == Max(1, Pow2(n_vars) \div Width(lw))

AccessMultilinears_Choices(lw, n_vars, tensor_query) ==
    {TransparentOf(1, n_vars, tensor_query)}
    \cup {FoldedOf(1, lw, n_vars, k) : k \in 0..FullLen(lw, n_vars)}

\* The value the buffers hold before the call.
StaleValues == {ZERO, 9}

AccessInputsOf(o, n, lw, sv, tq) ==
    {[order |-> o, n_vars |-> n, log_width |-> lw, subcube_vars |-> sv,
      subcube_index |-> idx, index_vars |-> n - 1 - sv, tensor_query |-> tq,
      multilinear |-> m,
      scratch_space |->
          IF scratch_space_len(o, lw, sv) = <<>> THEN <<>>
          ELSE <<[k \in 1..scratch_space_len(o, lw, sv)[1] |-> Broadcast(lw, stale)]>>,
      evals_0 |-> [k \in 1..Pow2(SatSub(sv, lw)) |-> Broadcast(lw, stale)],
      evals_1 |-> [k \in 1..Pow2(SatSub(sv, lw)) |-> Broadcast(lw, stale)]] :
        idx \in Idx(Pow2(n - 1 - sv)),
        m \in AccessMultilinears_Choices(lw, n, tq),
        stale \in StaleValues}

AccessInputs ==
    UNION {UNION {AccessInputsOf(o, n, lw, sv, tq) : sv \in SubcubeVarsChoices(n)} :
              o \in {"LowToHigh", "HighToLow"}, n \in 1..MaxNVars,
              lw \in 0..MaxAccessLogWidth, tq \in TensorQueryChoices}

AccessInit ==
    /\ DomainIdle
    /\ RoundIdle
    /\ CallIdle
    /\ access_in \in AccessInputs
    /\ access_out = [err |-> "pending"]

\* SumcheckMultilinearAccess::subcube_evaluations
Access ==
    /\ access_out.err = "pending"
    /\ access_out' = subcube_evaluations(access_in.order, access_in.log_width,
                          access_in.multilinear, access_in.subcube_vars,
                          access_in.subcube_index, access_in.index_vars,
                          access_in.tensor_query, access_in.scratch_space,
                          access_in.evals_0, access_in.evals_1)
    /\ UNCHANGED <<access_in, domain_vars, round_vars, call_vars>>

(***************************************************************************)
(* crates/core/src/oracle/multivariate.rs                                  *)
(* A multilinear oracle is the record of its n_vars and its tower level, a *)
(* composition the record of its n_vars, degree and tower level.           *)
(***************************************************************************)
\* A variant of CompositePolyOracle::new that checks the inner oracles'
\* variables before the arity of the composition.
CompositePolyOracle_new_VarsFirst(n_vars, inner, composition) ==
    IF \E i \in 1..Len(inner) : inner[i].n_vars # n_vars
    THEN [ok |-> FALSE, err |-> "IncorrectNumberOfVariables", expected |-> n_vars]
    ELSE IF Len(inner) # composition.n_vars
    THEN [ok |-> FALSE, err |-> "CompositionMismatch"]
    ELSE [ok |-> TRUE, n_vars |-> n_vars, inner |-> inner, composition |-> composition]

\* CompositePolyOracle::new
CompositePolyOracle_new(n_vars, inner, composition) ==
    IF Len(inner) # composition.n_vars
    THEN [ok |-> FALSE, err |-> "CompositionMismatch"]
    ELSE IF \E i \in 1..Len(inner) : inner[i].n_vars # n_vars
    THEN [ok |-> FALSE, err |-> "IncorrectNumberOfVariables", expected |-> n_vars]
    ELSE [ok |-> TRUE, n_vars |-> n_vars, inner |-> inner, composition |-> composition]

\* Iterator::max over the levels of the inner oracles from position i on:
\* an Option, <<>> for None on no oracle.
RECURSIVE IterMax(_, _, _)
IterMax(inner, i, acc) ==
    IF i > Len(inner) THEN acc
    ELSE IterMax(inner, i + 1,
                 IF acc = <<>> THEN <<inner[i].tower_level>>
                 ELSE <<Max(acc[1], inner[i].tower_level)>>)

\* A variant of binary_tower_level that takes the level of the inner
\* oracles whenever there is one.
binary_tower_level_InnerOnly(self) ==
    LET m == IterMax(self.inner, 1, <<>>)
    IN IF m = <<>> THEN self.composition.tower_level ELSE m[1]

\* CompositePolyOracle::binary_tower_level
binary_tower_level(self) ==
    LET m == IterMax(self.inner, 1, <<>>)
    IN Max(self.composition.tower_level, IF m = <<>> THEN 0 ELSE m[1])

\* CompositePolyOracle::n_multilinears
n_multilinears(self) == self.composition.n_vars

\* CompositePolyOracle::inner_polys
inner_polys(self) == self.inner

\* The tower levels of BinaryField2b, BinaryField8b and BinaryField32b.
TowerLevels == {1, 3, 5}

\* The numbers of variables of the oracles and of the composite.
OracleNVars == {4, 5}

OracleChoices == [n_vars : OracleNVars, tower_level : TowerLevels]

CompositionChoices == [n_vars : 0..MaxInner, degree : {1}, tower_level : TowerLevels]

OracleInputs ==
    [fn : {"CompositePolyOracle::new"}, n_vars : OracleNVars,
     inner : SeqsUpTo(OracleChoices, MaxInner), composition : CompositionChoices]

OracleInit ==
    /\ DomainIdle
    /\ RoundIdle
    /\ AccessIdle
    /\ args \in OracleInputs
    /\ ret = Pending

\* CompositePolyOracle::new
OracleNew ==
    /\ ret = Pending
    /\ ret' = [state |-> "new",
               self |-> CompositePolyOracle_new(args.n_vars, args.inner, args.composition)]
    /\ UNCHANGED <<args, domain_vars, round_vars, access_vars>>

\* The accessors of a constructed CompositePolyOracle.
OracleQuery ==
    /\ ret.state = "new"
    /\ ret.self.ok
    /\ ret' = [state |-> "queried", self |-> ret.self,
               binary_tower_level |-> binary_tower_level(ret.self),
               n_multilinears |-> n_multilinears(ret.self),
               n_vars |-> ret.self.n_vars,
               inner_polys |-> inner_polys(ret.self)]
    /\ UNCHANGED <<args, domain_vars, round_vars, access_vars>>

(***************************************************************************)
(* The AES tower fields of crates/circuits/src/groestl.rs.                 *)
(* AESTowerField8b is GF(2)[x] / (x^8 + x^4 + x^3 + x + 1) on the bytes    *)
(* 0..255. AESTowerField16b is its quadratic extension by X3 with          *)
(* X3^2 = X3 * AesX2 + 1, where AesX2 is the byte that stands for the      *)
(* generator X2 of the 8-bit tower level; its element lo + hi * X3 is the  *)
(* pair <<lo, hi>>.                                                        *)
(***************************************************************************)
Byte == 0..255

XorTable == [a \in Byte |-> [b \in Byte |-> XorBits(a, b)]]

Xor8(a, b) == XorTable[a][b]

\* Multiplication by x, reduced by x^8 + x^4 + x^3 + x + 1.
AesXtime(a) == IF 2 * a >= 256 THEN Xor8(2 * a - 256, 27) ELSE 2 * a

RECURSIVE AesMulBits(_, _)
AesMulBits(a, b) ==
    IF b = 0 THEN 0
    ELSE Xor8(IF b % 2 = 1 THEN a ELSE 0, AesMulBits(AesXtime(a), b \div 2))

AesMulTable == [a \in Byte |-> [b \in Byte |-> AesMulBits(a, b)]]

AesMul(a, b) == AesMulTable[a][b]

AesInvertTable ==
    [a \in Byte |-> IF a = 0 THEN 0 ELSE CHOOSE b \in Byte : AesMul(a, b) = 1]

\* Field::invert_or_zero of AESTowerField8b
invert_or_zero(a) == AesInvertTable[a]

\* The byte of AESTowerField8b that stands for the generator X2 of the
\* 8-bit tower level (0xD3).
AesX2 == 211

Aes16 == Byte \X Byte

Embed8(a) == <<a, 0>>

Add16(u, v) == <<Xor8(u[1], v[1]), Xor8(u[2], v[2])>>

Mul16(u, v) ==
    LET hh == AesMul(u[2], v[2])
    IN <<Xor8(AesMul(u[1], v[1]), hh),
         Xor8(Xor8(AesMul(u[1], v[2]), AesMul(u[2], v[1])), AesMul(hh, AesX2))>>

\* The product of an extension element and a subfield element.
MulByScalar8(u, c) == <<AesMul(u[1], c), AesMul(u[2], c)>>

RECURSIVE Sum16(_)
Sum16(s) == IF Len(s) = 0 THEN Embed8(0) ELSE Add16(Head(s), Sum16(Tail(s)))

\* A variant of mul_primitive that multiplies by the generator of the
\* level below, an element of the 8-bit field.
mul_primitive_LevelBelow(u, iota) == MulByScalar8(u, AesX2)

\* TowerField::mul_primitive(iota) with iota = 3 on AESTowerField16b: the
\* product with X3.
mul_primitive(u, iota) ==
    <<u[2], Xor8(u[1], AesMul(u[2], AesX2))>>

(***************************************************************************)
(* crates/circuits/src/groestl.rs: the compositions.                       *)
(***************************************************************************)
MIX_BYTES_VEC == <<2, 2, 3, 4, 5, 3, 5, 7>>

IncorrectQuerySize(expected) ==
    [ok |-> FALSE, err |-> "IncorrectQuerySize", expected |-> expected]

\* A variant of MixColumn::evaluate that pairs the coefficients with the
\* query from its first entry on.
MixColumn_evaluate_NoSkip(query) ==
    IF Len(query) # 9 THEN IncorrectQuerySize(9)
    ELSE LET sum == Sum16([i \in 1..8 |-> MulByScalar8(query[i], MIX_BYTES_VEC[i])])
         IN [ok |-> TRUE, value |-> Add16(sum, query[1])]

\* MixColumn::evaluate
MixColumn_evaluate(query) ==
    IF Len(query) # 9 THEN IncorrectQuerySize(9)
    ELSE LET sum == Sum16([i \in 1..8 |-> MulByScalar8(query[i + 1], MIX_BYTES_VEC[i])])
         IN [ok |-> TRUE, value |-> Add16(sum, query[1])]

\* SBoxConstraint::evaluate
SBoxConstraint_evaluate(query) ==
    IF Len(query) # 2 THEN IncorrectQuerySize(2)
    ELSE LET x == query[1]
             inv == query[2]
             non_zero_case == Add16(Mul16(x, inv), Embed8(1))
             zero_case == Add16(x, mul_primitive(inv, 3))
         IN [ok |-> TRUE, value |-> Mul16(non_zero_case, zero_case)]

\* The input rows of a MixColumn query: every row of bytes 0 and 1, and
\* the rows with one byte of MixRowBytes and zeros elsewhere.
MixRowBytes == {83, 202, 255}

MixRows ==
    [1..8 -> {0, 1}] \cup
    {[i \in 1..8 |-> IF i = k THEN b ELSE 0] : k \in 1..8, b \in MixRowBytes}

\* A query of n entries that are pairwise different.
LengthProbe(n) == [i \in 1..n |-> <<i, n>>]

MixColumnInputs ==
    {[fn |-> "MixColumn::evaluate", query |-> <<Embed8(y)>> \o [i \in 1..8 |-> Embed8(row[i])]] :
        y \in 0..7, row \in [1..8 -> {0, 1}]}
    \cup
    {[fn |-> "MixColumn::evaluate", query |-> <<Embed8(y)>> \o [i \in 1..8 |-> Embed8(row[i])]] :
        y \in Byte, row \in MixRows \ [1..8 -> {0, 1}]}
    \cup
    {[fn |-> "MixColumn::evaluate", query |-> LengthProbe(n)] : n \in 0..MaxQueryLen}

SBoxInputs ==
    {[fn |-> "SBoxConstraint::evaluate", query |-> <<Embed8(x), Embed8(inv)>>] :
        x \in Byte, inv \in Byte}
    \cup
    {[fn |-> "SBoxConstraint::evaluate", query |-> LengthProbe(n)] : n \in 0..MaxQueryLen}

(***************************************************************************)
(* Arithmetic expressions and the compositions made of them                *)
(* (ArithExpr, ArithCircuitPoly), over the field F.                        *)
(***************************************************************************)
Var(k) == [op |-> "Var", index |-> k]

Const(c) == [op |-> "Const", value |-> c]

AddExpr(l, r) == [op |-> "Add", left |-> l, right |-> r]

MulExpr(l, r) == [op |-> "Mul", left |-> l, right |-> r]

\* A variant of remap_vars that leaves every variable where it is.
remap_vars_Unmoved(expr, indices) == [ok |-> TRUE, expr |-> expr]

\* ArithCircuit::remap_vars: Var(k) becomes Var(indices[k]); an Err on a
\* variable that indices does not cover.
RECURSIVE remap_vars(_, _)
remap_vars(expr, indices) ==
    IF expr.op = "Var"
    THEN IF expr.index < Len(indices)
         THEN [ok |-> TRUE, expr |-> Var(At(indices, expr.index))]
         ELSE [ok |-> FALSE, err |-> "IncorrectArgumentLength"]
    ELSE IF expr.op = "Const" THEN [ok |-> TRUE, expr |-> expr]
    ELSE LET l == remap_vars(expr.left, indices)
             r == remap_vars(expr.right, indices)
         IN IF ~l.ok THEN l
            ELSE IF ~r.ok THEN r
            ELSE [ok |-> TRUE, expr |-> [op |-> expr.op, left |-> l.expr, right |-> r.expr]]

RECURSIVE EvalExpr(_, _)
EvalExpr(expr, query) ==
    IF expr.op = "Var" THEN At(query, expr.index)
    ELSE IF expr.op = "Const" THEN expr.value
    ELSE IF expr.op = "Add" THEN Add(EvalExpr(expr.left, query), EvalExpr(expr.right, query))
    ELSE Mul(EvalExpr(expr.left, query), EvalExpr(expr.right, query))

RECURSIVE ExprDegree(_)
ExprDegree(expr) ==
    IF expr.op = "Var" THEN 1
    ELSE IF expr.op = "Const" THEN 0
    ELSE IF expr.op = "Add" THEN Max(ExprDegree(expr.left), ExprDegree(expr.right))
    ELSE ExprDegree(expr.left) + ExprDegree(expr.right)

\* The least tower level that holds every constant: GF(2), GF(4), GF(16).
RECURSIVE ExprTowerLevel(_)
ExprTowerLevel(expr) ==
    IF expr.op = "Var" THEN 0
    ELSE IF expr.op = "Const"
    THEN (IF expr.value < 2 THEN 0 ELSE IF expr.value < 4 THEN 1 ELSE 2)
    ELSE Max(ExprTowerLevel(expr.left), ExprTowerLevel(expr.right))

\* ArithCircuitPoly::evaluate
CircuitEvaluate(composition, query) ==
    IF Len(query) # composition.n_vars THEN IncorrectQuerySize(composition.n_vars)
    ELSE [ok |-> TRUE, value |-> EvalExpr(composition.expr, query)]

(***************************************************************************)
(* crates/core/src/composition/index.rs                                    *)
(***************************************************************************)
\* A variant of IndexComposition::new that lets an index equal n_vars.
IndexComposition_new_OffByOne(n_vars, indices, composition) ==
    IF \E k \in 1..Len(indices) : indices[k] > n_vars
    THEN [ok |-> FALSE, err |-> "IndexCompositionIndicesOutOfBounds"]
    ELSE [ok |-> TRUE, n_vars |-> n_vars, indices |-> indices, composition |-> composition]

\* IndexComposition::new
IndexComposition_new(n_vars, indices, composition) ==
    IF \E k \in 1..Len(indices) : indices[k] >= n_vars
    THEN [ok |-> FALSE, err |-> "IndexCompositionIndicesOutOfBounds"]
    ELSE [ok |-> TRUE, n_vars |-> n_vars, indices |-> indices, composition |-> composition]

\* A variant of position that keeps the last equal element.
RECURSIVE position_Last(_, _, _)
position_Last(superset, subset_item, i) ==
    IF i >= Len(superset) THEN <<>>
    ELSE LET later == position_Last(superset, subset_item, i + 1)
         IN IF later # <<>> THEN later
            ELSE IF At(superset, i) = subset_item THEN <<i>> ELSE <<>>

\* superset.iter().position(|superset_item| superset_item == &subset_item)
\* from position i on: an Option.
RECURSIVE position(_, _, _)
position(superset, subset_item, i) ==
    IF i >= Len(superset) THEN <<>>
    ELSE IF At(superset, i) = subset_item THEN <<i>>
    ELSE position(superset, subset_item, i + 1)

\* index_composition
index_composition(superset, subset, composition) ==
    LET n_vars == Len(superset)
        proper_subset ==
            \A k \in 1..Len(subset) : \E j \in 1..Len(superset) : superset[j] = subset[k]
    IN IF ~proper_subset THEN [ok |-> FALSE, err |-> "MixedMultilinearNotFound"]
       ELSE [ok |-> TRUE, n_vars |-> n_vars,
             indices |-> [k \in 1..Len(subset) |-> position(superset, subset[k], 0)[1]],
             composition |-> composition]

\* A variant of IndexComposition::evaluate that reports the number of
\* indices as the expected size.
IndexComposition_evaluate_ExpectedInner(self, query) ==
    IF Len(query) # self.n_vars THEN IncorrectQuerySize(Len(self.indices))
    ELSE LET subquery == [k \in 1..Len(self.indices) |-> At(query, self.indices[k])]
         IN CircuitEvaluate(self.composition, subquery)

\* A variant of IndexComposition::evaluate that gathers the sub-query in
\* the reverse order of the indices.
IndexComposition_evaluate_Reversed(self, query) ==
    IF Len(query) # self.n_vars THEN IncorrectQuerySize(self.n_vars)
    ELSE LET n == Len(self.indices)
             subquery == [k \in 1..n |-> At(query, self.indices[n + 1 - k])]
         IN CircuitEvaluate(self.composition, subquery)

\* IndexComposition::evaluate
IndexComposition_evaluate(self, query) ==
    IF Len(query) # self.n_vars THEN IncorrectQuerySize(self.n_vars)
    ELSE LET subquery == [k \in 1..Len(self.indices) |-> At(query, self.indices[k])]
         IN CircuitEvaluate(self.composition, subquery)

\* IndexComposition::expression: the Err of remap_vars is a panic.
IndexComposition_expression(self) ==
    LET remapped == remap_vars(self.composition.expr, self.indices)
    IN IF remapped.ok THEN remapped.expr ELSE [op |-> "panic"]

\* IndexComposition::degree
IndexComposition_degree(self) == ExprDegree(self.composition.expr)

\* IndexComposition::binary_tower_level
IndexComposition_binary_tower_level(self) == ExprTowerLevel(self.composition.expr)

\* The inner compositions, each with the arity N of the adapter it is
\* handed to; the third is that of tests_expr.
InnerChoices ==
    {[n_vars |-> 1, expr |-> Var(0)],
     [n_vars |-> 1, expr |-> AddExpr(MulExpr(Var(0), Var(0)), Const(6))],
     [n_vars |-> 2, expr |-> MulExpr(Var(0), AddExpr(Var(1), Const(1)))],
     [n_vars |-> 2, expr |-> AddExpr(Var(0), MulExpr(Const(2), Var(1)))],
     [n_vars |-> 3, expr |-> AddExpr(MulExpr(Var(0), Var(1)), Var(2))]}

\* The identifiers of the multilinears handed to index_composition.
OracleIds == {10, 11}

\* The entries of the queries handed to an IndexComposition.
QueryValues == {0, 1, 6}

IndexNewInputs ==
    UNION {[fn : {"IndexComposition::new"}, n_vars : 0..MaxOuter,
            indices : [1..c.n_vars -> 0..MaxOuter], composition : {c}] : c \in InnerChoices}

IndexFactoryInputs ==
    UNION {[fn : {"index_composition"}, superset : SeqsUpTo(OracleIds, MaxOuter),
            subset : [1..c.n_vars -> OracleIds], composition : {c}] : c \in InnerChoices}

CompositionInit ==
    /\ DomainIdle
    /\ RoundIdle
    /\ AccessIdle
    /\ args \in IndexNewInputs \cup IndexFactoryInputs \cup MixColumnInputs \cup SBoxInputs
    /\ ret = Pending

\* IndexComposition::new
IndexNew ==
    /\ ret = Pending
    /\ args.fn = "IndexComposition::new"
    /\ ret' = [state |-> "new",
               self |-> IndexComposition_new(args.n_vars, args.indices, args.composition)]
    /\ UNCHANGED <<args, domain_vars, round_vars, access_vars>>

\* index_composition
IndexFactory ==
    /\ ret = Pending
    /\ args.fn = "index_composition"
    /\ ret' = [state |-> "new",
               self |-> index_composition(args.superset, args.subset, args.composition)]
    /\ UNCHANGED <<args, domain_vars, round_vars, access_vars>>

\* IndexComposition::evaluate on a constructed adapter.
IndexEvaluate ==
    /\ ret.state = "new"
    /\ ret.self.ok
    /\ \E n \in SatSub(ret.self.n_vars, 1) .. (ret.self.n_vars + 1) :
          \E query \in [1..n -> QueryValues] :
              ret' = [state |-> "evaluated", self |-> ret.self, query |-> query,
                      out |-> IndexComposition_evaluate(ret.self, query)]
    /\ UNCHANGED <<args, domain_vars, round_vars, access_vars>>

\* IndexComposition::expression, degree and binary_tower_level on a
\* constructed adapter.
IndexDescribe ==
    /\ ret.state = "new"
    /\ ret.self.ok
    /\ ret' = [state |-> "described", self |-> ret.self,
               expression |-> IndexComposition_expression(ret.self),
               degree |-> IndexComposition_degree(ret.self),
               binary_tower_level |-> IndexComposition_binary_tower_level(ret.self)]
    /\ UNCHANGED <<args, domain_vars, round_vars, access_vars>>

\* MixColumn::evaluate
MixColumnEvaluate ==
    /\ ret = Pending
    /\ args.fn = "MixColumn::evaluate"
    /\ ret' = [state |-> "evaluated", out |-> MixColumn_evaluate(args.query)]
    /\ UNCHANGED <<args, domain_vars, round_vars, access_vars>>

\* SBoxConstraint::evaluate
SBoxEvaluate ==
    /\ ret = Pending
    /\ args.fn = "SBoxConstraint::evaluate"
    /\ ret' = [state |-> "evaluated", out |-> SBoxConstraint_evaluate(args.query)]
    /\ UNCHANGED <<args, domain_vars, round_vars, access_vars>>

(***************************************************************************)
(* crates/circuits/src/groestl.rs: the arithmetization of the Groestl P    *)
(* permutation.  The constraint system builder and its witness index are   *)
(* a record                                                                *)
(*   [namespace, oracles, witness, has_witness, constraints,               *)
(*    ops, fail_at, failed, returns]                                       *)
(* An OracleId is the position of the oracle in oracles; witness holds at  *)
(* the same position the column of the oracle, << >> while none is set.    *)
(* ops counts the calls so far that return a Result, the call numbered     *)
(* fail_at returns Err (0: none does), and failed says that an Err is      *)
(* propagating: the operations after a failed one are not executed.        *)
(* returns is history: one entry per return of a function of groestl.rs    *)
(* during the last step, with the depth of the namespace stack at entry    *)
(* and at return.                                                          *)
(***************************************************************************)
N_ROUNDS == 10

STATE_SIZE == 64

SBOX_VEC == 99

SBOX_MATRIX == <<31, 62, 124, 248, 241, 227, 199, 143>>

S_BOX ==
 <<
    99, 124, 119, 123, 242, 107, 111, 197, 48, 1, 103, 43, 254, 215, 171, 118,
    202, 130, 201, 125, 250, 89, 71, 240, 173, 212, 162, 175, 156, 164, 114, 192,
    183, 253, 147, 38, 54, 63, 247, 204, 52, 165, 229, 241, 113, 216, 49, 21,
    4, 199, 35, 195, 24, 150, 5, 154, 7, 18, 128, 226, 235, 39, 178, 117,
    9, 131, 44, 26, 27, 110, 90, 160, 82, 59, 214, 179, 41, 227, 47, 132,
    83, 209, 0, 237, 32, 252, 177, 91, 106, 203, 190, 57, 74, 76, 88, 207,
    208, 239, 170, 251, 67, 77, 51, 133, 69, 249, 2, 127, 80, 60, 159, 168,
    81, 163, 64, 143, 146, 157, 56, 245, 188, 182, 218, 33, 16, 255, 243, 210,
    205, 12, 19, 236, 95, 151, 68, 23, 196, 167, 126, 61, 100, 93, 25, 115,
    96, 129, 79, 220, 34, 42, 144, 136, 70, 238, 184, 20, 222, 94, 11, 219,
    224, 50, 58, 10, 73, 6, 36, 92, 194, 211, 172, 98, 145, 149, 228, 121,
    231, 200, 55, 109, 141, 213, 78, 169, 108, 86, 244, 234, 101, 122, 174, 8,
    186, 120, 37, 46, 28, 166, 180, 198, 232, 221, 116, 31, 75, 189, 139, 138,
    112, 62, 181, 102, 72, 3, 246, 14, 97, 53, 87, 185, 134, 193, 29, 158,
    225, 248, 152, 17, 105, 217, 142, 148, 155, 30, 135, 233, 206, 85, 40, 223,
    140, 161, 137, 13, 191, 230, 66, 104, 65, 153, 45, 15, 176, 84, 187, 22
 >>

s_box(x) == S_BOX[x + 1]

\* Bit b of a byte: the coefficient of basis(b) in
\* ExtensionField::<BinaryField1b>::iter_bases.
Bit(x, b) == (x \div Pow2(b)) % 2

\* <AESTowerField8b as ExtensionField<BinaryField1b>>::basis(b)
basis(b) == Pow2(b)

NewBuilder(has_witness, fail_at) ==
    [namespace |-> <<>>, oracles |-> <<>>, witness |-> <<>>,
     has_witness |-> has_witness, constraints |-> <<>>,
     ops |-> 0, fail_at |-> fail_at, failed |-> FALSE, returns |-> <<>>]

\* A call that returns a Result is counted; it is the one to return Err
\* if its number is fail_at.
Attempt(b) == [b EXCEPT !.ops = @ + 1, !.failed = (b.ops + 1 = b.fail_at)]

push_namespace(b, name) ==
    IF b.failed THEN b ELSE [b EXCEPT !.namespace = Append(@, name)]

\* A variant of pop_namespace that leaves the stack as it is.
pop_namespace_Kept(b) == b

pop_namespace(b) ==
    IF b.failed THEN b
    ELSE [b EXCEPT !.namespace = SubSeq(@, 1, Len(@) - 1)]

\* n committed oracles, the ids Len(b.oracles) + 1 .. Len(b.oracles) + n.
add_committed_multiple(b, name, n, tower_level) ==
    IF b.failed THEN b
    ELSE [b EXCEPT
            !.oracles = @ \o [k \in 1..n |->
                                 [kind |-> "committed", name |-> name,
                                  tower_level |-> tower_level]],
            !.witness = @ \o [k \in 1..n |-> <<>>]]

\* The oracle offset + sum of coefficient * oracle over the terms
\* <<oracle, coefficient>>; its id is Len(b.oracles) + 1.
add_linear_combination_with_offset(b, name, offset, terms) ==
    IF b.failed THEN b
    ELSE LET t == Attempt(b)
         IN IF t.failed THEN t
            ELSE [t EXCEPT
                    !.oracles = Append(@, [kind |-> "linear_combination",
                                           name |-> name, offset |-> offset,
                                           terms |-> terms]),
                    !.witness = Append(@, <<>>)]

add_linear_combination(b, name, terms) ==
    add_linear_combination_with_offset(b, name, 0, terms)

\* transparent::constant: the oracle of a constant, its witness column
\* filled when the builder has a witness.
transparent_constant(b, name, log_size, value) ==
    IF b.failed THEN b
    ELSE LET t == Attempt(b)
         IN IF t.failed THEN t
            ELSE [t EXCEPT
                    !.oracles = Append(@, [kind |-> "transparent", name |-> name,
                                           value |-> value]),
                    !.witness = Append(@, IF t.has_witness
                                          THEN [z \in 1..Pow2(log_size) |-> value]
                                          ELSE <<>>)]

\* unconstrained: a committed oracle, its witness column filled with
\* column when the builder has a witness.
unconstrained(b, name, column) ==
    IF b.failed THEN b
    ELSE LET t == Attempt(b)
         IN IF t.failed THEN t
            ELSE [t EXCEPT
                    !.oracles = Append(@, [kind |-> "committed", name |-> name,
                                           tower_level |-> 3]),
                    !.witness = Append(@, IF t.has_witness THEN column ELSE <<>>)]

\* witness.get(id) for the ids in turn, the first Err ending the sequence
\* of calls; an oracle without a column has no entry.
witness_get(b, ids) ==
    IF b.failed THEN b
    ELSE LET errs == {k \in 1..Len(ids) :
                         b.ops + k = b.fail_at \/ b.witness[ids[k]] = <<>>}
         IN IF errs = {} THEN [b EXCEPT !.ops = @ + Len(ids)]
            ELSE [b EXCEPT !.ops = @ + (CHOOSE k \in errs : \A e \in errs : k <= e),
                           !.failed = TRUE]

RECURSIVE SetColumns(_, _, _, _)
SetColumns(witness, ids, columns, k) ==
    IF k > Len(ids) THEN witness
    ELSE SetColumns([witness EXCEPT ![ids[k]] = columns[k]], ids, columns, k + 1)

\* witness.set_owned(zip(ids, columns))
set_owned(b, ids, columns) ==
    IF b.failed THEN b
    ELSE LET t == Attempt(b)
         IN IF t.failed THEN t
            ELSE [t EXCEPT !.witness = SetColumns(@, ids, columns, 1)]

assert_zero(b, ids, composition) ==
    IF b.failed THEN b
    ELSE [b EXCEPT !.constraints =
             Append(@, [ids |-> ids, composition |-> composition])]

\* The function returns, Ok unless an Err is propagating.
Returned(b, fn, depth_in) ==
    [b EXCEPT !.returns = Append(@, [fn |-> fn, depth_in |-> depth_in,
                                     depth_out |-> Len(b.namespace),
                                     ok |-> ~b.failed])]

\* A variant of SBoxBits that takes the bits of the input.
SBoxBits_OfInput(column) ==
    [k \in 1..8 |-> [z \in 1..Len(column) |-> Bit(column[z], k - 1)]]

\* The columns of inv_bits written by the witness loop of
\* groestl_p_permutation_sbox from the input column.
SBoxBits(column) ==
    [k \in 1..8 |->
        [z \in 1..Len(column) |-> Bit(invert_or_zero(column[z]), k - 1)]]

\* groestl_p_permutation_sbox; the id of the returned oracle is
\* Len(b0.oracles) + 10.
groestl_p_permutation_sbox(b0, name, log_size, input) ==
    IF b0.failed THEN b0
    ELSE LET b1 == push_namespace(b0, name)
             first == Len(b1.oracles)
             b2 == add_committed_multiple(b1, "inv_bits", 8, 0)
             inv_bits == [k \in 1..8 |-> first + k]
             b3 == add_linear_combination(b2, "inv",
                       [k \in 1..8 |-> <<inv_bits[k], basis(k - 1)>>])
             inv == first + 9
             b4 == add_linear_combination_with_offset(b3, "output", SBOX_VEC,
                       [k \in 1..8 |-> <<inv_bits[k], SBOX_MATRIX[k]>>])
             output == first + 10
             b5 == IF ~b4.has_witness THEN b4
                   ELSE LET got == witness_get(b4, <<input>>)
                            column == got.witness[input]
                            inv_witness ==
                                [z \in 1..Pow2(log_size) |-> invert_or_zero(column[z])]
                            output_witness ==
                                [z \in 1..Pow2(log_size) |-> s_box(column[z])]
                            set_bits == set_owned(got, inv_bits, SBoxBits(column))
                        IN set_owned(set_bits, <<inv, output>>,
                                     <<inv_witness, output_witness>>)
             b6 == assert_zero(b5, <<input, inv>>, "SBoxConstraint")
         IN Returned(pop_namespace(b6), "groestl_p_permutation_sbox",
                     Len(b0.namespace))

RECURSIVE XorBytes(_)
XorBytes(s) == IF Len(s) = 0 THEN 0 ELSE Xor8(Head(s), XorBytes(Tail(s)))

\* The linear combinations of permutation_round_consts from the i-th on.
RECURSIVE RoundConstOracles(_, _, _, _, _)
RoundConstOracles(b, input, round, multiples_16, i) ==
    IF b.failed \/ i = 8 THEN b
    ELSE RoundConstOracles(
             add_linear_combination(b, "round_consts",
                 <<<<input[8 * i + 1], 1>>, <<round, 1>>, <<multiples_16[i + 1], 1>>>>),
             input, round, multiples_16, i + 1)

\* A variant of RoundConstColumns without the multiples of 0x10.
RoundConstColumns_NoMultiples(witness, log_size, input, round, multiples_16) ==
    [i \in 1..8 |->
        [z \in 1..Pow2(log_size) |->
            Xor8(witness[input[8 * (i - 1) + 1]][z], witness[round][z])]]

\* The columns written by the witness loop of permutation_round_consts.
RoundConstColumns(witness, log_size, input, round, multiples_16) ==
    [i \in 1..8 |->
        [z \in 1..Pow2(log_size) |->
            Xor8(Xor8(witness[input[8 * (i - 1) + 1]][z], witness[round][z]),
                 witness[multiples_16[i]][z])]]

\* permutation_round_consts; the returned ids are Len(b0.oracles) + 2 ..
\* Len(b0.oracles) + 9.
permutation_round_consts(b0, log_size, round_index, multiples_16, input) ==
    IF b0.failed THEN b0
    ELSE LET first == Len(b0.oracles)
             b1 == transparent_constant(b0, "round_index", log_size, round_index)
             round == first + 1
             b2 == RoundConstOracles(b1, input, round, multiples_16, 0)
             round_consts == [i \in 1..8 |-> first + 1 + i]
             b3 == IF ~b2.has_witness THEN b2
                   ELSE LET got == witness_get(
                                       witness_get(witness_get(b2, input),
                                                   <<round>>),
                                       multiples_16)
                        IN set_owned(got, round_consts,
                                     RoundConstColumns(got.witness, log_size, input,
                                                       round, multiples_16))
         IN Returned(b3, "permutation_round_consts", Len(b0.namespace))

\* A variant of SubBytes whose S-boxes all read the input columns.
RECURSIVE SubBytes_InputOnly(_, _, _, _, _)
SubBytes_InputOnly(b, log_size, round_consts, input, s) ==
    IF b.failed \/ s = STATE_SIZE THEN b
    ELSE SubBytes_InputOnly(
             groestl_p_permutation_sbox(b, <<"s_box", s>>, log_size, input[s + 1]),
             log_size, round_consts, input, s + 1)

\* The array::try_from_fn over the state positions from s on: the S-box of
\* position s reads the round constant column s / 8 if s is a multiple of
\* 8 and the input column s otherwise.
RECURSIVE SubBytes(_, _, _, _, _)
SubBytes(b, log_size, round_consts, input, s) ==
    IF b.failed \/ s = STATE_SIZE THEN b
    ELSE SubBytes(
             groestl_p_permutation_sbox(b, <<"s_box", s>>, log_size,
                 IF s % 8 = 0 THEN round_consts[(s \div 8) + 1] ELSE input[s + 1]),
             log_size, round_consts, input, s + 1)

\* A variant of ShiftMixByte without the shift of the rows.
ShiftMixByte_NoShift(sub, ij) ==
    LET j == ij \div 8
        i == ij % 8
        a_j == [l \in 0..7 |-> sub[j * 8 + l + 1]]
        a_i == [k \in 0..7 |-> a_j[(i + k) % 8]]
        inner == Xor8(AesMul(2, XorBytes(<<a_i[3], a_i[4], a_i[6], a_i[7]>>)),
                      XorBytes(<<a_i[0], a_i[1], a_i[2], a_i[5], a_i[7]>>))
    IN Xor8(AesMul(2, inner), XorBytes(<<a_i[2], a_i[4], a_i[5], a_i[6], a_i[7]>>))

\* The byte b_ij written to output[ij] at one row, sub the 64 bytes of
\* p_sub_bytes_out at that row.
ShiftMixByte(sub, ij) ==
    LET j == ij \div 8
        i == ij % 8
        a_j == [l \in 0..7 |-> sub[((l + j) % 8) * 8 + l + 1]]
        a_i == [k \in 0..7 |-> a_j[(i + k) % 8]]
        inner == Xor8(AesMul(2, XorBytes(<<a_i[3], a_i[4], a_i[6], a_i[7]>>)),
                      XorBytes(<<a_i[0], a_i[1], a_i[2], a_i[5], a_i[7]>>))
    IN Xor8(AesMul(2, inner), XorBytes(<<a_i[2], a_i[4], a_i[5], a_i[6], a_i[7]>>))

\* The columns of output written by the witness loop of
\* groestl_p_permutation_round.
ShiftMixColumns(witness, log_size, p_sub_bytes_out) ==
    LET rows == [z \in 1..Pow2(log_size) |->
                    [s \in 1..STATE_SIZE |-> witness[p_sub_bytes_out[s]][z]]]
    IN [ij \in 1..STATE_SIZE |->
           [z \in 1..Pow2(log_size) |-> ShiftMixByte(rows[z], ij - 1)]]

\* The oracles of the MixColumn constraint of output position ij.
mix_shift_oracles(output, p_sub_bytes_out, ij) ==
    LET i == ij \div 8
        j == ij % 8
    IN <<output[ij + 1]>> \o
       [k \in 1..8 |->
           LET j_prime == (j + (k - 1)) % 8
               i_prime == (i + j_prime) % 8
           IN p_sub_bytes_out[i_prime * 8 + j_prime + 1]]

\* The loop of assert_zero calls from position ij on.
RECURSIVE AssertMixColumns(_, _, _, _)
AssertMixColumns(b, output, p_sub_bytes_out, ij) ==
    IF b.failed \/ ij = STATE_SIZE THEN b
    ELSE AssertMixColumns(
             assert_zero(b, mix_shift_oracles(output, p_sub_bytes_out, ij), "MixColumn"),
             output, p_sub_bytes_out, ij + 1)

\* The ids of p_sub_bytes_out and of output in a round entered with
\* first oracles.
SubBytesIds(first) == [s \in 1..STATE_SIZE |-> first + 10 * s]

OutputIds(first) == [ij \in 1..STATE_SIZE |-> first + 10 * STATE_SIZE + ij]

\* groestl_p_permutation_round; the returned ids are
\* OutputIds(Len(b0.oracles)).
groestl_p_permutation_round(b0, name, log_size, round_consts, input) ==
    IF b0.failed THEN b0
    ELSE LET b1 == push_namespace(b0, name)
             b2 == SubBytes(b1, log_size, round_consts, input, 0)
             p_sub_bytes_out == SubBytesIds(Len(b1.oracles))
             b3 == add_committed_multiple(b2, "output", STATE_SIZE, 3)
             output == OutputIds(Len(b1.oracles))
             b4 == IF ~b3.has_witness THEN b3
                   ELSE LET got == witness_get(b3, p_sub_bytes_out)
                        IN set_owned(got, output,
                                     ShiftMixColumns(got.witness, log_size,
                                                     p_sub_bytes_out))
             b5 == AssertMixColumns(b4, output, p_sub_bytes_out, 0)
         IN Returned(pop_namespace(b5), "groestl_p_permutation_round",
                     Len(b0.namespace))

(***************************************************************************)
(* Groestl256Core::permutation_p of binius_hash, the reference of the      *)
(* debug check: the P permutation of the Groestl specification on the 8 x  *)
(* 8 state matrix, byte i of the block in row i % 8 of column i / 8.       *)
(***************************************************************************)
\* The tuple of g(0), ..., g(7).
Tuple8(g(_)) == <<g(0), g(1), g(2), g(3), g(4), g(5), g(6), g(7)>>

\* The state matrix, row r and column c at [r + 1][c + 1].
RefMatrix(block) ==
    Tuple8(LAMBDA r : Tuple8(LAMBDA c : block[c * 8 + r + 1]))

RefBlock(st) ==
    [i \in 1..STATE_SIZE |-> st[((i - 1) % 8) + 1][((i - 1) \div 8) + 1]]

RefAddRoundConstant(st, r_index) ==
    Tuple8(LAMBDA r : Tuple8(LAMBDA c :
        IF r = 0 THEN Xor8(st[r + 1][c + 1], Xor8(16 * c, r_index))
        ELSE st[r + 1][c + 1]))

\* The Rijndael S-box: the affine map b_i + b_(i+4) + b_(i+5) + b_(i+6) +
\* b_(i+7) + c_i, c = 0x63, of the inverse.
RefSubByte(x) ==
    LET v == invert_or_zero(x)
        bit(i) == (Bit(v, i) + Bit(v, (i + 4) % 8) + Bit(v, (i + 5) % 8)
                     + Bit(v, (i + 6) % 8) + Bit(v, (i + 7) % 8) + Bit(99, i)) % 2
    IN bit(0) + 2 * bit(1) + 4 * bit(2) + 8 * bit(3) + 16 * bit(4)
         + 32 * bit(5) + 64 * bit(6) + 128 * bit(7)

RefSubBytes(st) ==
    Tuple8(LAMBDA r : Tuple8(LAMBDA c : RefSubByte(st[r + 1][c + 1])))

\* Row r is rotated left by r positions.
RefShiftBytes(st) ==
    Tuple8(LAMBDA r : Tuple8(LAMBDA c : st[r + 1][((c + r) % 8) + 1]))

\* The circulant matrix circ(02, 02, 03, 04, 05, 03, 05, 07).
RefCirc == <<2, 2, 3, 4, 5, 3, 5, 7>>

RefMixBytes(st) ==
    Tuple8(LAMBDA r : Tuple8(LAMBDA c :
        XorBytes(Tuple8(LAMBDA k :
            AesMul(RefCirc[((k - r + 8) % 8) + 1], st[k + 1][c + 1])))))

RECURSIVE RefRounds(_, _)
RefRounds(st, r_index) ==
    IF Len(st) # 8 \/ r_index = N_ROUNDS THEN st
    ELSE RefRounds(RefMixBytes(RefShiftBytes(RefSubBytes(
                       RefAddRoundConstant(st, r_index)))),
                   r_index + 1)

permutation_p(block) == RefBlock(RefRounds(RefMatrix(block), 0))

\* Row z of the columns ids of the witness.
WitnessRow(witness, ids, z) == [i \in 1..Len(ids) |-> witness[ids[i]][z]]

(***************************************************************************)
(* groestl_p_permutation as a state machine: the entry up to the constant  *)
(* oracles, then permutation_round_consts and groestl_p_permutation_round  *)
(* in turn for the ten rounds, then the debug check and the return.  The   *)
(* call's record ret holds the builder and the local variables: the ids    *)
(* p_in and multiples_16, round_index, the ids input and round_consts of   *)
(* the round last begun and p_sub_bytes_out and output of the round last   *)
(* completed.  groestl_p_permutation_sbox is also called on its own, on an *)
(* input column of any bytes.                                              *)
(***************************************************************************)
MaxLogSize == 1

\* The input blocks: byte i of pattern <<a, b>> is a * i + b.
GroestlPatterns == <<<<0, 0>>, <<1, 0>>, <<37, 11>>, <<0, 255>>>>

InputByte(k, z, i) ==
    LET pattern == GroestlPatterns[((k + z) % Len(GroestlPatterns)) + 1]
    IN (pattern[1] * i + pattern[2]) % 256

\* The columns p_in whose row z holds the block of pattern k + z.
InputColumns(log_size, k) ==
    [i \in 1..STATE_SIZE |->
        [z \in 1..Pow2(log_size) |-> InputByte(k, z - 1, i - 1)]]

\* The numbers of the fallible calls that are made to fail: in the entry,
\* in permutation_round_consts, in an S-box, in the round and in the
\* debug check.
FailPoints == {10, 70, 73, 75, 100, 155, 156, 157, 158, 159, 160, 300, 500, 540, 545, 4800}

GroestlInputs ==
    {[fn |-> "groestl_p_permutation", log_size |-> ls, p_in |-> InputColumns(ls, k),
      has_witness |-> TRUE, debug_assertions |-> d, fail_at |-> 0] :
         ls \in 0..MaxLogSize, k \in 0..3, d \in BOOLEAN}
    \cup {[fn |-> "groestl_p_permutation", log_size |-> 0, p_in |-> InputColumns(0, 2),
           has_witness |-> FALSE, debug_assertions |-> TRUE, fail_at |-> f] :
              f \in {0, 75, 93}}
    \cup {[fn |-> "groestl_p_permutation", log_size |-> 0, p_in |-> InputColumns(0, 2),
           has_witness |-> TRUE, debug_assertions |-> TRUE, fail_at |-> f] :
              f \in FailPoints}

SboxCallInputs ==
    {[fn |-> "groestl_p_permutation_sbox", log_size |-> 0, column |-> <<x>>,
      has_witness |-> TRUE, fail_at |-> 0] : x \in Byte}
    \cup {[fn |-> "groestl_p_permutation_sbox", log_size |-> ls,
           column |-> [z \in 1..Pow2(ls) |-> (x + 31 * (z - 1)) % 256],
           has_witness |-> w, fail_at |-> f] :
              ls \in 0..MaxLogSize, x \in {0, 83}, w \in BOOLEAN, f \in 0..5}

GroestlInit ==
    /\ DomainIdle
    /\ RoundIdle
    /\ AccessIdle
    /\ args \in GroestlInputs \cup SboxCallInputs
    /\ ret = Pending

RECURSIVE Unconstrained64(_, _, _)
Unconstrained64(b, p_in, i) ==
    IF b.failed \/ i = STATE_SIZE THEN b
    ELSE Unconstrained64(unconstrained(b, "p_in", p_in[i + 1]), p_in, i + 1)

RECURSIVE Constants8(_, _, _)
Constants8(b, log_size, i) ==
    IF b.failed \/ i = 8 THEN b
    ELSE Constants8(transparent_constant(b, "multiples_16", log_size, i * 16),
                    log_size, i + 1)

\* groestl_p_permutation returns the Err that is propagating.
ErrReturn(b) ==
    [state |-> "returned", ok |-> FALSE,
     builder |-> Returned(b, "groestl_p_permutation", 0)]

\* groestl_p_permutation up to the first round: the 64 unconstrained
\* input columns and the eight constants, whose Err is unwrapped.
GroestlEnter ==
    /\ ret = Pending
    /\ args.fn = "groestl_p_permutation"
    /\ LET b1 == Unconstrained64(NewBuilder(args.has_witness, args.fail_at),
                                 args.p_in, 0)
           b2 == Constants8(b1, args.log_size, 0)
           p_in == [i \in 1..STATE_SIZE |-> i]
       IN ret' = IF b1.failed THEN ErrReturn(b1)
                 ELSE IF b2.failed THEN [state |-> "panicked", builder |-> b2]
                 ELSE [state |-> "running", builder |-> b2, p_in |-> p_in,
                       multiples_16 |-> [i \in 1..8 |-> STATE_SIZE + i],
                       round_index |-> 0, phase |-> "consts", input |-> p_in,
                       round_consts |-> <<>>, p_sub_bytes_out |-> <<>>,
                       output |-> p_in]
    /\ UNCHANGED <<args, domain_vars, round_vars, access_vars>>

\* permutation_round_consts of the round round_index on the output of the
\* round before.
PermutationRoundConsts ==
    /\ ret.state = "running"
    /\ ret.phase = "consts"
    /\ ret.round_index < N_ROUNDS
    /\ LET b0 == [ret.builder EXCEPT !.returns = <<>>]
           b == permutation_round_consts(b0, args.log_size, ret.round_index,
                                         ret.multiples_16, ret.output)
       IN ret' = IF b.failed THEN ErrReturn(b)
                 ELSE [ret EXCEPT !.builder = b, !.phase = "round",
                                  !.input = ret.output,
                                  !.round_consts =
                                      [i \in 1..8 |-> Len(b0.oracles) + 1 + i]]
    /\ UNCHANGED <<args, domain_vars, round_vars, access_vars>>

\* groestl_p_permutation_round of the round round_index.
PermutationRound ==
    /\ ret.state = "running"
    /\ ret.phase = "round"
    /\ LET b0 == [ret.builder EXCEPT !.returns = <<>>]
           b == groestl_p_permutation_round(b0, <<"round", ret.round_index>>,
                                            args.log_size, ret.round_consts, ret.input)
       IN ret' = IF b.failed THEN ErrReturn(b)
                 ELSE [ret EXCEPT !.builder = b, !.phase = "consts",
                                  !.round_index = @ + 1,
                                  !.p_sub_bytes_out = SubBytesIds(Len(b0.oracles)),
                                  !.output = OutputIds(Len(b0.oracles))]
    /\ UNCHANGED <<args, domain_vars, round_vars, access_vars>>

\* The end of groestl_p_permutation: with debug assertions and a witness
\* the output rows are compared with permutation_p of the input rows.
GroestlReturn ==
    /\ ret.state = "running"
    /\ ret.phase = "consts"
    /\ ret.round_index = N_ROUNDS
    /\ LET b0 == [ret.builder EXCEPT !.returns = <<>>]
           debug == args.debug_assertions /\ b0.has_witness
           got == IF debug
                  THEN witness_get(witness_get(b0, ret.p_in), ret.output)
                  ELSE b0
           agree == \A z \in 1..Pow2(args.log_size) :
                       permutation_p(WitnessRow(got.witness, ret.p_in, z))
                           = WitnessRow(got.witness, ret.output, z)
       IN ret' = IF got.failed THEN ErrReturn(got)
                 ELSE IF debug /\ ~agree THEN [state |-> "panicked", builder |-> got]
                 ELSE [state |-> "returned", ok |-> TRUE,
                       builder |-> Returned(got, "groestl_p_permutation", 0),
                       p_in |-> ret.p_in, p_out |-> ret.output]
    /\ UNCHANGED <<args, domain_vars, round_vars, access_vars>>

\* groestl_p_permutation_sbox on the oracle 1 of a builder that holds the
\* input column alone.
GroestlSbox ==
    /\ ret = Pending
    /\ args.fn = "groestl_p_permutation_sbox"
    /\ LET b0 == [unconstrained(NewBuilder(args.has_witness, 0), "input", args.column)
                     EXCEPT !.ops = 0, !.fail_at = args.fail_at]
           b == groestl_p_permutation_sbox(b0, "s_box", args.log_size, 1)
       IN ret' = [state |-> "returned", ok |-> ~b.failed, builder |-> b,
                  input |-> 1, inv_bits |-> [k \in 1..8 |-> 1 + k],
                  inv |-> 10, output |-> 11]
    /\ UNCHANGED <<args, domain_vars, round_vars, access_vars>>

(***************************************************************************)
(* The specifications.                                                     *)
(***************************************************************************)
DomainNext ==
    \/ FromPoints
    \/ IntoInterpolationDomain
    \/ Extrapolate
    \/ Interpolate

SpecDomain == DomainInit /\ [][DomainNext]_vars

RoundNext ==
    \/ Start
    \/ \E p \in 1..NumPartitions, i \in todo : Fold(p, i)
    \/ \E a, b \in live : Reduce(a, b)
    \/ Finish

SpecRound == RoundInit /\ [][RoundNext]_vars

AccessNext == Access

SpecAccess == AccessInit /\ [][AccessNext]_vars

FactoryNext ==
    \/ CreateDefault
    \/ CreateIsomorphic

SpecFactory == FactoryInit /\ [][FactoryNext]_vars

OracleNext ==
    \/ OracleNew
    \/ OracleQuery

SpecOracle == OracleInit /\ [][OracleNext]_vars

CompositionNext ==
    \/ IndexNew
    \/ IndexFactory
    \/ IndexEvaluate
    \/ IndexDescribe
    \/ MixColumnEvaluate
    \/ SBoxEvaluate

SpecComposition == CompositionInit /\ [][CompositionNext]_vars

GroestlNext ==
    \/ GroestlEnter
    \/ PermutationRoundConsts
    \/ PermutationRound
    \/ GroestlReturn
    \/ GroestlSbox

SpecGroestl == GroestlInit /\ [][GroestlNext]_vars

(***************************************************************************)
(* Properties of the univariate domains.                                   *)
(***************************************************************************)
HasDuplicate(points) ==
    \E i, j \in 1..Len(points) : i # j /\ points[i] = points[j]

\* The product over j in from..Len(points), j # i, of points[i] - points[j].
RECURSIVE LagrangeDenominator(_, _, _)
LagrangeDenominator(points, i, from) ==
    IF from > Len(points) THEN ONE
    ELSE IF from = i THEN LagrangeDenominator(points, i, from + 1)
    ELSE Mul(Sub(points[i], points[from]), LagrangeDenominator(points, i, from + 1))

\* C8: extrapolate, applied to the values of the coefficient vector c on
\* the d+1 distinct domain points and to any field element z (a domain
\* point or not), returns evaluate_univariate(c, z).
C8_ExtrapolateRoundTrip ==
    call.op = "extrapolate" =>
        /\ call.out.ok
        /\ call.out.val = evaluate_univariate(call.coeffs, call.x)

\* A degree-2 polynomial extrapolated at a point of its own 3-point domain,
\* with a value outside the subfield.
C8_Witness ==
    /\ call.op = "extrapolate"
    /\ Len(domain.points) = 3
    /\ \E i \in 1..3 : domain.points[i] = call.x
    /\ call.coeffs[3] # ZERO
    /\ call.out.ok
    /\ call.out.val \notin FDomain

\* C9: for pairwise distinct points the interpolation domain is built
\* (the Vandermonde matrix is inverted), and interpolate applied to the
\* evaluations of c on the domain points returns exactly c.
C9_InterpolateInverts ==
    /\ interp.ok \/ interp.err = "unbuilt"
    /\ call.op = "interpolate" =>
           /\ call.out.ok
           /\ call.out.val = call.coeffs

C9_Witness ==
    /\ call.op = "interpolate"
    /\ Len(domain.points) = 3
    /\ call.out.ok
    /\ \A i \in 1..3 : call.coeffs[i] # ZERO
    /\ call.coeffs[2] \notin FDomain

\* C10: from_points fails with DuplicateDomainPoint exactly when two
\* entries of the point list are equal; otherwise (the empty and the
\* one-point list included) it keeps the points and weight i is the
\* inverse of the product over j # i of (x_i - x_j).
C10_FromPoints ==
    domain # [ok |-> FALSE, err |-> "unbuilt"] =>
        /\ ~domain.ok <=> HasDuplicate(points_in)
        /\ ~domain.ok => domain.err = "DuplicateDomainPoint"
        /\ domain.ok =>
               /\ domain.points = points_in
               /\ Len(domain.weights) = Len(points_in)
               /\ \A i \in 1..Len(points_in) :
                      Mul(domain.weights[i], LagrangeDenominator(points_in, i, 1)) = ONE

\* Three distinct points, with a weight other than one.
C10_Witness ==
    /\ domain.ok
    /\ Len(domain.points) = 3
    /\ \E i \in 1..3 : domain.weights[i] # ONE

(***************************************************************************)
(* Properties of the round calculation.                                    *)
(***************************************************************************)
\* The evaluator's eval_point_indices contain 0, 1 and 2.
HasSpecialPoints(evaluator) == evaluator.lo = 0 /\ evaluator.hi >= 3

\* The returned evaluation at the infinity index is the one at 1 minus the
\* one at 0.
InfinityIdentity(round_evals) == round_evals[3] = Sub(round_evals[2], round_evals[1])

\* C1: the returned round evaluation at index 2 equals the one at index 1
\* minus the one at index 0 for every evaluator whose indices contain 0, 1
\* and 2 and whose composition has degree one.
C1_InfinityIdentityDegreeOne ==
    pc = "done" =>
        \A k \in 1..Len(call_in.evaluators) :
            (HasSpecialPoints(call_in.evaluators[k])
                /\ Degree(call_in.evaluators[k].comp) = 1)
            => InfinityIdentity(result.round_evals[k])

C1_Witness ==
    /\ pc = "done"
    /\ \E k \in 1..Len(call_in.evaluators) :
          /\ HasSpecialPoints(call_in.evaluators[k])
          /\ call_in.evaluators[k].comp = CompAffine
          /\ call_in.evaluators[k].suffix > 0
          /\ result.round_evals[k][3] # ZERO
          /\ result.round_evals[k][1] # ZERO

\* C1 as stated: the identity for every composition.
C1_InfinityIdentityEveryComposition ==
    pc = "done" =>
        \A k \in 1..Len(call_in.evaluators) :
            HasSpecialPoints(call_in.evaluators[k])
            => InfinityIdentity(result.round_evals[k])

\* The buffer the point schedule prescribes for one multilinear.
ScheduledBuffer(evals, eval_point_index, points, lw) ==
    [k \in 1..Len(evals.evals_0) |->
        [l \in 1..Width(lw) |->
            LET e0 == evals.evals_0[k][l]
                e1 == evals.evals_1[k][l]
            IN IF eval_point_index = 0 THEN e0
               ELSE IF eval_point_index = 1 THEN e1
               ELSE IF eval_point_index = 2 THEN Sub(e1, e0)
               ELSE Add(e0, Mul(points[eval_point_index - 2], Sub(e1, e0)))]]

\* The same buffer with the finite points going through extrapolate_line.
LineBuffer(evals, eval_point_index, points, lw) ==
    [k \in 1..Len(evals.evals_0) |->
        [l \in 1..Width(lw) |->
            extrapolate_line(evals.evals_0[k][l], evals.evals_1[k][l],
                             points[eval_point_index - 2])]]

\* C2: for every accessed multilinear and every subcube the buffer handed
\* to the evaluators is evals_0 at index 0, evals_1 at index 1, evals_1 -
\* evals_0 at index 2 and evals_0 + z * (evals_1 - evals_0) at every index
\* i >= 3, z the finite point i - 3, which is extrapolate_line's value.
C2_PerPointBuffers ==
    \A p \in DOMAIN parts :
        (parts[p].last >= 0 /\ parts[p].err = "none") =>
            \A h \in 1..Len(parts[p].handed) :
                \A i \in 1..Len(call_in.multilinears) :
                    parts[p].last < subcube_count_by_multilinear(call_in)[i] =>
                        LET evals == parts[p].multilinear_evals[i]
                            idx == parts[p].handed[h].point
                            buf == parts[p].handed[h].batch[i]
                        IN /\ buf = ScheduledBuffer(evals, idx, call_in.points,
                                                    call_in.log_width)
                           /\ idx >= 3 =>
                                 buf = LineBuffer(evals, idx, call_in.points,
                                                  call_in.log_width)

C2_Witness ==
    \E p \in DOMAIN parts :
        /\ parts[p].last >= 1
        /\ call_in.log_width = 1
        /\ \E h \in 1..Len(parts[p].handed) :
              /\ parts[p].handed[h].point = 4
              /\ parts[p].last < subcube_count_by_multilinear(call_in)[1]
              /\ LET evals == parts[p].multilinear_evals[1]
                 IN /\ parts[p].handed[h].batch[1] # evals.evals_0
                    /\ parts[p].handed[h].batch[1] # evals.evals_1
                    /\ evals.evals_0 # evals.evals_1

\* max over the evaluators of eval_point_indices.end, 0 without evaluators.
RECURSIVE MaxEnd(_)
MaxEnd(evaluators) ==
    IF Len(evaluators) = 0 THEN 0
    ELSE Max(Head(evaluators).hi, MaxEnd(Tail(evaluators)))

\* The number of finite evaluation points the call must be given.
ExpectedPointsLen(evaluators) ==
    IF MaxEnd(evaluators) < 3 THEN 0 ELSE MaxEnd(evaluators) - 3

\* C3: the call returns Err(IncorrectNontrivialEvalPointsLength) exactly
\* when the number of finite points differs from max(end) - 3 (0 below 3
\* or without evaluators); the error comes before any multilinear is read.
C3_PointsLengthCheck ==
    pc \in {"fold", "done", "err"} =>
        /\ (result.err = "IncorrectNontrivialEvalPointsLength")
               <=> (Len(call_in.points) # ExpectedPointsLen(call_in.evaluators))
        /\ result.err = "IncorrectNontrivialEvalPointsLength" =>
               (pc = "err" /\ parts = <<>> /\ todo = {})

C3_Witness ==
    /\ pc = "err"
    /\ result.err = "IncorrectNontrivialEvalPointsLength"
    /\ Len(call_in.evaluators) = 1
    /\ Len(call_in.points) = 2
    /\ call_in.evaluators[1].hi = 4

\* The Folded multilinear holding the full table, the entries past the
\* prefix all suffix_eval.
Materialized(lw, n_vars, multilinear) ==
    [multilinear EXCEPT
        !.evals = [k \in 1..FullLen(lw, n_vars) |->
                      IF k <= Len(multilinear.evals) THEN multilinear.evals[k]
                      ELSE Broadcast(lw, multilinear.suffix_eval)]]

\* C4: under both access methods a Folded prefix with suffix_eval s yields
\* the evals_0 and evals_1 of the Folded multilinear holding the full
\* table whose entries past the prefix are all s, for wide subcubes and
\* for subcubes narrower than the packing width.
C4_FoldedPrefixEquivalence ==
    (access_out.err # "pending" /\ access_out.err # "idle"
        /\ access_in.multilinear.kind = "Folded") =>
        LET full == subcube_evaluations(access_in.order, access_in.log_width,
                        Materialized(access_in.log_width, access_in.n_vars,
                                     access_in.multilinear),
                        access_in.subcube_vars, access_in.subcube_index,
                        access_in.index_vars, access_in.tensor_query,
                        access_in.scratch_space, access_in.evals_0,
                        access_in.evals_1)
        IN /\ access_out.err = "none"
           /\ full.err = "none"
           /\ access_out.evals_0 = full.evals_0
           /\ access_out.evals_1 = full.evals_1

C4_Witness ==
    /\ access_out.err = "none"
    /\ access_in.multilinear.kind = "Folded"
    /\ access_in.order = "HighToLow"
    /\ access_in.subcube_vars < access_in.log_width
    /\ Len(access_in.multilinear.evals) = 1
    /\ FullLen(access_in.log_width, access_in.n_vars) = 2
    /\ access_out.evals_1[1][1] = access_in.multilinear.suffix_eval
    /\ access_out.evals_0[1][1] # access_in.multilinear.suffix_eval

\* A fold of every subcube index in ascending order by one partition.
RECURSIVE SequentialFold(_, _, _)
SequentialFold(rin, st, subcube_idx) ==
    IF subcube_idx >= Pow2(index_vars(rin)) \/ st.err # "none" THEN st
    ELSE SequentialFold(rin, FoldBody(rin, st, subcube_idx), subcube_idx + 1)

SequentialResult(rin) ==
    FinalRoundEvals(rin, SequentialFold(rin, ParFoldStatesNew(rin), 0).round_evals)

RECURSIVE ReverseBits(_, _)
ReverseBits(i, n) ==
    IF n = 0 THEN 0 ELSE (i % 2) * Pow2(n - 1) + ReverseBits(i \div 2, n - 1)

\* The table of the same polynomial with its variables in reverse order.
ReverseVariables(table) ==
    [i \in 1..Len(table) |-> table[ReverseBits(i - 1, Log2(Len(table))) + 1]]

ReverseMultilinear(rin, multilinear) ==
    IF multilinear.kind = "Transparent"
    THEN [multilinear EXCEPT !.table = ReverseVariables(multilinear.table)]
    ELSE [multilinear EXCEPT
             !.evals = PackTable(rin.log_width,
                           ReverseVariables(FullTable(rin.order, rin.log_width,
                               rin.n_vars, rin.tensor_query, multilinear)))]

\* The HighToLow call on the variable-reversed multilinears.
ReversedCall(rin) ==
    [rin EXCEPT
        !.order = "HighToLow",
        !.tensor_query = ReverseVariables(rin.tensor_query),
        !.multilinears = [i \in 1..Len(rin.multilinears) |->
                             ReverseMultilinear(rin, rin.multilinears[i])]]

\* Every declared constant suffix is one of the reversed call too.
ReversedSuffixesHold(rin) ==
    LET rev == ReversedCall(rin)
    IN \A k \in 1..Len(rin.evaluators) :
           TailConstant(rev.order, rev.log_width, rev.n_vars, rev.tensor_query,
                        rev.multilinears, rev.evaluators[k].comp,
                        rev.evaluators[k].suffix)

\* C5: one round with LowToHigh on multilinear tables returns the round
\* evaluations of the round with HighToLow on the same tables with their
\* variables in reverse order.
C5_EvaluationOrderEquivalence ==
    (pc = "done" /\ call_in.order = "LowToHigh" /\ ReversedSuffixesHold(call_in)) =>
        result.round_evals = SequentialResult(ReversedCall(call_in))

C5_Witness ==
    /\ pc = "done"
    /\ call_in.order = "LowToHigh"
    /\ ReversedSuffixesHold(call_in)
    /\ call_in.n_vars = 3
    /\ call_in.log_width = 1
    /\ Len(call_in.tensor_query) = 2
    /\ Len(call_in.evaluators) >= 1
    /\ call_in.evaluators[1].comp = CompQuadratic
    /\ call_in.multilinears[1].kind = "Transparent"
    /\ call_in.multilinears[2].kind = "Transparent"
    /\ result.round_evals[1][1] # result.round_evals[1][2]
    /\ ReversedCall(call_in).multilinears # call_in.multilinears

\* C6 as stated: in the final reduction the suffix passed to
\* process_constant_eval_suffix and the points of the processed subcubes
\* make up the (n_vars - 1)-variate hypercube, subcube_count *
\* 2^subcube_vars + passed = 2^(n_vars - 1), and the passed suffix is at
\* most the evaluator's declared const_eval_suffix.
C6_SuffixAccounting ==
    pc = "done" =>
        \A k \in 1..Len(suffix_calls) :
            \A j \in 1..Len(suffix_calls[k]) :
                LET passed == suffix_calls[k][j].const_eval_suffix
                    subcube_count ==
                        DivCeil(Pow2(call_in.n_vars - 1) - call_in.evaluators[k].suffix,
                                Pow2(call_in.subcube_vars))
                IN /\ subcube_count * Pow2(call_in.subcube_vars) + passed
                          = Pow2(call_in.n_vars - 1)
                   /\ passed <= call_in.evaluators[k].suffix

\* C7: whatever the split of the subcube indices into partitions, the
\* order of a partition's indices and the order of the reductions, the
\* call returns the round evaluations of one sequential fold.
C7_ScheduleIndependence ==
    pc = "done" => result.round_evals = SequentialResult(call_in)

C7_Witness ==
    /\ pc = "done"
    /\ Pow2(index_vars(call_in)) = 2
    /\ parts[1].last = 1
    /\ parts[2].last = -1
    /\ Len(call_in.evaluators) = 2
    /\ subcube_count_by_multilinear(call_in)[2] = 1
    /\ subcube_count_by_multilinear(call_in)[1] = 2
    /\ result.round_evals[1][1] # ZERO


(***************************************************************************)
(* Properties of the evaluation domain factories.                          *)
(***************************************************************************)
\* C11: DefaultEvaluationDomainFactory::create(size) returns the domain
\* whose points are 0, 1, 2, ... in the step order of the field, size of
\* them and all distinct, when size is at most the number of field
\* elements, and Err(DomainSizeTooLarge) when size is larger;
\* IsomorphicEvaluationDomainFactory::create returns the images of the
\* same points under the field conversion.
C11_FactoryPoints ==
    (args.fn = "create" /\ ret # Pending) =>
        IF args.size > FieldOrder(args.step_field)
        THEN ret = [ok |-> FALSE, err |-> "DomainSizeTooLarge"]
        ELSE /\ ret.ok
             /\ Len(ret.points) = args.size
             /\ ~HasDuplicate(ret.points)
             /\ \A i \in 1..args.size :
                   ret.points[i] = IF args.factory = "Default" THEN i - 1
                                   ELSE Convert(args.step_field, i - 1)

\* The isomorphic factory built a domain of every field element, and the
\* conversion moved the third point.
C11_Witness ==
    /\ args.fn = "create"
    /\ ret # Pending
    /\ args.factory = "Isomorphic"
    /\ args.step_field = "Polynomial4b"
    /\ args.size = 16
    /\ ret.ok
    /\ ret.points[3] # 2


(***************************************************************************)
(* Properties of the composite oracle.                                     *)
(***************************************************************************)
LevelsOf(inner) == {inner[i].tower_level : i \in 1..Len(inner)}

\* C12: CompositePolyOracle::binary_tower_level() is the maximum of the
\* composition's level and of the level of every inner oracle: it is the
\* composition's level when no inner oracle is above it, and the largest
\* inner level otherwise.
C12_TowerLevelIsMaximum ==
    (args.fn = "CompositePolyOracle::new" /\ ret.state = "queried") =>
        LET levels == LevelsOf(args.inner) \cup {args.composition.tower_level}
            level == ret.binary_tower_level
        IN /\ level \in levels
           /\ \A l \in levels : l <= level
           /\ (\A l \in LevelsOf(args.inner) : l <= args.composition.tower_level)
                 => level = args.composition.tower_level
           /\ (\E l \in LevelsOf(args.inner) : l > args.composition.tower_level)
                 => level \in LevelsOf(args.inner)

\* A composite whose inner oracles lie below, at and above the level of the
\* composition was queried.
C12_Witness ==
    /\ args.fn = "CompositePolyOracle::new"
    /\ ret.state = "queried"
    /\ args.composition.tower_level = 3
    /\ LevelsOf(args.inner) = {1, 3, 5}
    /\ ret.binary_tower_level = 5

\* C13: CompositePolyOracle::new returns Err(CompositionMismatch) when the
\* number of inner oracles differs from the composition's n_vars, whatever
\* the oracles are; otherwise Err(IncorrectNumberOfVariables) with the given
\* n_vars when some inner oracle has another number of variables; otherwise
\* Ok. A constructed composite has n_multilinears() = inner_polys().len()
\* and every inner oracle over n_vars() variables.
C13_ConstructorErrors ==
    (args.fn = "CompositePolyOracle::new" /\ ret # Pending) =>
        LET mismatch == Len(args.inner) # args.composition.n_vars
            wrong_vars == \E i \in 1..Len(args.inner) : args.inner[i].n_vars # args.n_vars
        IN /\ mismatch => ret.self = [ok |-> FALSE, err |-> "CompositionMismatch"]
           /\ (~mismatch /\ wrong_vars) =>
                 ret.self = [ok |-> FALSE, err |-> "IncorrectNumberOfVariables",
                             expected |-> args.n_vars]
           /\ (~mismatch /\ ~wrong_vars) =>
                 /\ ret.self.ok
                 /\ ret.self.inner = args.inner
                 /\ ret.self.n_vars = args.n_vars
           /\ ret.state = "queried" =>
                 /\ ret.n_multilinears = Len(ret.inner_polys)
                 /\ \A i \in 1..Len(ret.inner_polys) :
                       ret.inner_polys[i].n_vars = ret.n_vars

\* new was called with both a wrong number of inner oracles and an inner
\* oracle over the wrong number of variables, and reported the former.
C13_Witness ==
    /\ args.fn = "CompositePolyOracle::new"
    /\ ret # Pending
    /\ Len(args.inner) = 2
    /\ args.composition.n_vars = 3
    /\ args.inner[1].n_vars # args.n_vars
    /\ ret.self = [ok |-> FALSE, err |-> "CompositionMismatch"]


(***************************************************************************)
(* Properties of the index composition and of the Groestl compositions.    *)
(***************************************************************************)
\* C14: IndexComposition::new returns Err(IndexCompositionIndicesOutOfBounds)
\* exactly when some index is >= n_vars; otherwise it returns the adapter
\* with the given n_vars and indices, and every read of that adapter on a
\* query of length n_vars is inside the query.
C14_IndicesInBounds ==
    (args.fn = "IndexComposition::new" /\ ret # Pending) =>
        LET out_of_bounds == \E k \in 1..Len(args.indices) : args.indices[k] >= args.n_vars
        IN /\ out_of_bounds <=>
                 ret.self = [ok |-> FALSE, err |-> "IndexCompositionIndicesOutOfBounds"]
           /\ ~out_of_bounds =>
                 /\ ret.self.ok
                 /\ ret.self.n_vars = args.n_vars
                 /\ ret.self.indices = args.indices
                 /\ ret.self.composition = args.composition
           /\ (ret.state = "evaluated" /\ Len(ret.query) = ret.self.n_vars) =>
                 \A k \in 1..Len(ret.self.indices) :
                     ret.self.indices[k] + 1 \in DOMAIN ret.query

\* new refused an index equal to n_vars, the least one out of bounds.
C14_Witness ==
    /\ args.fn = "IndexComposition::new"
    /\ ret # Pending
    /\ \E k \in 1..Len(args.indices) : args.indices[k] = args.n_vars
    /\ \A k \in 1..Len(args.indices) : args.indices[k] <= args.n_vars
    /\ ret.self = [ok |-> FALSE, err |-> "IndexCompositionIndicesOutOfBounds"]

\* C15: index_composition returns Err(MixedMultilinearNotFound) exactly when
\* some subset element equals no superset element; otherwise the adapter
\* has n_vars = superset.len() and indices[k] is the first position of the
\* superset that holds an element equal to subset[k].
C15_FactoryIndices ==
    (args.fn = "index_composition" /\ ret # Pending) =>
        LET missing == \E k \in 1..Len(args.subset) :
                          \A j \in 1..Len(args.superset) : args.superset[j] # args.subset[k]
        IN /\ missing <=> ret.self = [ok |-> FALSE, err |-> "MixedMultilinearNotFound"]
           /\ ~missing =>
                 /\ ret.self.ok
                 /\ ret.self.n_vars = Len(args.superset)
                 /\ Len(ret.self.indices) = Len(args.subset)
                 /\ \A k \in 1..Len(args.subset) :
                       LET i == ret.self.indices[k]
                       IN /\ i \in Idx(ret.self.n_vars)
                          /\ At(args.superset, i) = args.subset[k]
                          /\ \A j \in Idx(i) : At(args.superset, j) # args.subset[k]

\* The superset holds the element twice, and the index is that of the
\* first.
C15_Witness ==
    /\ args.fn = "index_composition"
    /\ ret # Pending
    /\ args.superset = <<11, 10, 10>>
    /\ args.subset = <<10, 11>>
    /\ ret.self.ok
    /\ ret.self.indices = <<1, 0>>

\* C16: on a query of length n_vars, IndexComposition::evaluate is the
\* inner composition on the sub-query whose k-th entry is
\* query[indices[k]]; a query that differs in entries no index names gives
\* the same result; degree() and binary_tower_level() are those of the
\* inner composition.
C16_EvaluateGathers ==
    /\ (ret.state = "evaluated" /\ args.fn \in {"IndexComposition::new", "index_composition"}
           /\ Len(ret.query) = ret.self.n_vars) =>
          LET indices == ret.self.indices
              subquery == [k \in 1..Len(indices) |-> ret.query[indices[k] + 1]]
              named == {indices[k] + 1 : k \in 1..Len(indices)}
          IN /\ ret.out = [ok |-> TRUE, value |-> EvalExpr(args.composition.expr, subquery)]
             /\ \A other \in [1..Len(ret.query) -> QueryValues] :
                   (\A i \in named : other[i] = ret.query[i])
                      => IndexComposition_evaluate(ret.self, other) = ret.out
    /\ ret.state = "described" =>
          /\ ret.degree = ExprDegree(args.composition.expr)
          /\ ret.binary_tower_level = ExprTowerLevel(args.composition.expr)

\* The adapter of indices [1, 2] over three variables evaluated
\* Var(0) * (Var(1) + 1) on the second and third entry of the query.
C16_Witness ==
    /\ ret.state = "evaluated"
    /\ args.fn = "IndexComposition::new"
    /\ ret.self.n_vars = 3
    /\ ret.self.indices = <<1, 2>>
    /\ ret.self.composition.expr = MulExpr(Var(0), AddExpr(Var(1), Const(1)))
    /\ ret.query = <<6, 1, 0>>
    /\ ret.out = [ok |-> TRUE, value |-> 1]

RECURSIVE IsRemapOf(_, _, _)
IsRemapOf(e2, e1, indices) ==
    /\ e2.op = e1.op
    /\ e1.op = "Var" => e2 = [op |-> "Var", index |-> indices[e1.index + 1]]
    /\ e1.op = "Const" => e2 = e1
    /\ e1.op \in {"Add", "Mul"} =>
          /\ IsRemapOf(e2.left, e1.left, indices)
          /\ IsRemapOf(e2.right, e1.right, indices)

\* C18: IndexComposition::expression() is the inner expression with every
\* Var(k) replaced by Var(indices[k]), constants and operators unchanged;
\* for indices [1, 2] and Var(0) * (Var(1) + 1) it is Var(1) * (Var(2) + 1).
C18_ExpressionRemap ==
    ret.state = "described" =>
        /\ IsRemapOf(ret.expression, args.composition.expr, ret.self.indices)
        /\ (ret.self.indices = <<1, 2>> /\
            args.composition.expr = MulExpr(Var(0), AddExpr(Var(1), Const(1))))
              => ret.expression = MulExpr(Var(1), AddExpr(Var(2), Const(1)))

\* The adapter of tests_expr was asked for its expression.
C18_Witness ==
    /\ ret.state = "described"
    /\ ret.self.n_vars = 3
    /\ ret.self.indices = <<1, 2>>
    /\ args.composition.expr = MulExpr(Var(0), AddExpr(Var(1), Const(1)))
    /\ ret.expression = MulExpr(Var(1), AddExpr(Var(2), Const(1)))

\* The query's entries are elements of the 8-bit subfield.
IsByteQuery(query) == \A i \in 1..Len(query) : query[i][2] = 0

\* C19: for every byte x of the AES field and inv = invert_or_zero(x),
\* SBoxConstraint.evaluate([x, inv]) is zero; for x # 0 and every byte inv
\* other than the inverse of x, and for x = 0 and inv # 0, it is nonzero
\* (x and inv embedded in the 16-bit field).
C19_SBoxInversion ==
    (args.fn = "SBoxConstraint::evaluate" /\ ret.state = "evaluated"
        /\ Len(args.query) = 2 /\ IsByteQuery(args.query)) =>
        LET x == args.query[1][1]
            inv == args.query[2][1]
        IN /\ ret.out.ok
           /\ inv = invert_or_zero(x) => ret.out.value = <<0, 0>>
           /\ (x # 0 /\ inv # invert_or_zero(x)) => ret.out.value # <<0, 0>>
           /\ (x = 0 /\ inv # 0) => ret.out.value # <<0, 0>>

\* The constraint vanished on 0x53 and its inverse 0xCA.
C19_Witness ==
    /\ args.fn = "SBoxConstraint::evaluate"
    /\ ret.state = "evaluated"
    /\ args.query = <<<<83, 0>>, <<202, 0>>>>
    /\ AesMul(83, 202) = 1
    /\ ret.out = [ok |-> TRUE, value |-> <<0, 0>>]

\* The sum over k of c[k] * x[k] in the AES field.
RECURSIVE AesDot(_, _)
AesDot(c, x) ==
    IF Len(c) = 0 THEN 0
    ELSE Xor8(AesMul(Head(c), Head(x)), AesDot(Tail(c), Tail(x)))

\* C20: for bytes y, x0..x7 of the AES field, MixColumn.evaluate([y, x0,
\* ..., x7]) is zero if and only if y is the sum over k of c_k * x_k with
\* c = (02, 02, 03, 04, 05, 03, 05, 07); the all-zero row gives y = 0 and
\* the row (01, 0, ..., 0) gives y = 02.
C20_MixColumnRelation ==
    (args.fn = "MixColumn::evaluate" /\ ret.state = "evaluated"
        /\ Len(args.query) = 9 /\ IsByteQuery(args.query)) =>
        LET y == args.query[1][1]
            x == [k \in 1..8 |-> args.query[k + 1][1]]
            zero == ret.out.ok /\ ret.out.value = <<0, 0>>
        IN /\ zero <=> y = AesDot(<<2, 2, 3, 4, 5, 3, 5, 7>>, x)
           /\ x = <<0, 0, 0, 0, 0, 0, 0, 0>> => (zero <=> y = 0)
           /\ x = <<1, 0, 0, 0, 0, 0, 0, 0>> => (zero <=> y = 2)

\* The row (01, 0, ..., 0) with y = 02 satisfied the relation.
C20_Witness ==
    /\ args.fn = "MixColumn::evaluate"
    /\ ret.state = "evaluated"
    /\ args.query = <<<<2, 0>>, <<1, 0>>, <<0, 0>>, <<0, 0>>, <<0, 0>>, <<0, 0>>,
                      <<0, 0>>, <<0, 0>>, <<0, 0>>>>
    /\ ret.out = [ok |-> TRUE, value |-> <<0, 0>>]


(***************************************************************************)
(* Properties of the access methods.                                       *)
(***************************************************************************)
\* Scalar j of a slice of packed elements.
ScalarAt(lw, packed, j) == packed[(j \div Width(lw)) + 1][(j % Width(lw)) + 1]

AccessReturned == access_out.err # "pending" /\ access_out.err # "idle"

\* C23: LowToHighAccess::subcube_evaluations on a Transparent multilinear
\* with an empty tensor query writes, for every j < 2^subcube_vars, to
\* scalar j of evals_0 the evaluation at hypercube index
\* (subcube_index << (subcube_vars + 1)) | 2j and to scalar j of evals_1
\* the evaluation at (subcube_index << (subcube_vars + 1)) | (2j + 1),
\* whether the scratch buffer has several packed elements or one.
C23_LowToHighRestrictions ==
    (AccessReturned /\ access_in.order = "LowToHigh"
        /\ access_in.multilinear.kind = "Transparent"
        /\ QueryNVars(access_in.tensor_query) = 0) =>
        LET lw == access_in.log_width
            base == access_in.subcube_index * Pow2(access_in.subcube_vars + 1)
        IN /\ access_out.err = "none"
           /\ \A j \in Idx(Pow2(access_in.subcube_vars)) :
                 /\ ScalarAt(lw, access_out.evals_0, j)
                       = access_in.multilinear.table[base + 2 * j + 1]
                 /\ ScalarAt(lw, access_out.evals_1, j)
                       = access_in.multilinear.table[base + 2 * j + 1 + 1]

\* The scratch buffer was one packed element of four scalars holding a
\* subcube of two variables, not the first of the table.
C23_Witness ==
    /\ AccessReturned
    /\ access_in.order = "LowToHigh"
    /\ access_in.multilinear.kind = "Transparent"
    /\ QueryNVars(access_in.tensor_query) = 0
    /\ access_in.log_width = 2
    /\ access_in.subcube_vars = 1
    /\ access_in.subcube_index = 1
    /\ Len(access_out.scratch_space[1]) = 1
    /\ access_out.evals_0[1][2] = access_in.multilinear.table[7]
    /\ access_out.evals_1[1][2] = access_in.multilinear.table[8]

\* C24: HighToLowAccess::subcube_evaluations writes, for every
\* j < 2^subcube_vars, to scalar j of evals_0 the evaluation at hypercube
\* index (subcube_index << subcube_vars) | j and to scalar j of evals_1 the
\* evaluation at ((subcube_index | (1 << index_vars)) << subcube_vars) | j,
\* for Transparent and for Folded multilinears, and the outcome is the same
\* with no scratch buffer and with any scratch buffer.
C24_HighToLowRestrictions ==
    (AccessReturned /\ access_in.order = "HighToLow") =>
        LET lw == access_in.log_width
            sv == access_in.subcube_vars
            table == FullTable("HighToLow", lw, access_in.n_vars,
                               access_in.tensor_query, access_in.multilinear)
            low == access_in.subcube_index * Pow2(sv)
            high == (access_in.subcube_index + Pow2(access_in.index_vars)) * Pow2(sv)
            with_scratch ==
                subcube_evaluations("HighToLow", lw, access_in.multilinear, sv,
                    access_in.subcube_index, access_in.index_vars,
                    access_in.tensor_query, <<zeroed_vec(lw, 1)>>,
                    access_in.evals_0, access_in.evals_1)
        IN /\ access_out.err = "none"
           /\ \A j \in Idx(Pow2(sv)) :
                 /\ ScalarAt(lw, access_out.evals_0, j) = table[low + j + 1]
                 /\ ScalarAt(lw, access_out.evals_1, j) = table[high + j + 1]
           /\ access_in.scratch_space = <<>>
           /\ access_out.scratch_space = <<>>
           /\ with_scratch.err = "none"
           /\ with_scratch.evals_0 = access_out.evals_0
           /\ with_scratch.evals_1 = access_out.evals_1
           /\ with_scratch.scratch_space = <<zeroed_vec(lw, 1)>>

\* A Folded multilinear was read on a subcube narrower than the packing
\* width, not the first of the table, without a scratch buffer.
C24_Witness ==
    /\ AccessReturned
    /\ access_in.order = "HighToLow"
    /\ access_in.multilinear.kind = "Folded"
    /\ access_in.subcube_vars < access_in.log_width
    /\ access_in.subcube_index = 1
    /\ access_in.scratch_space = <<>>
    /\ Len(access_in.multilinear.evals) = FullLen(access_in.log_width, access_in.n_vars)
    /\ access_out.err = "none"
    /\ access_out.evals_0[1][1] # access_out.evals_1[1][1]

(***************************************************************************)
(* Properties of the fold and of the final map.                            *)
(***************************************************************************)
\* Whether the composition of evaluator k uses multilinear i.
Uses(k, i) ==
    \E t \in 1..Len(call_in.evaluators[k].comp) :
        \E v \in 1..Len(call_in.evaluators[k].comp[t]) :
            call_in.evaluators[k].comp[t][v] = i - 1

\* ceil((2^(n_vars - 1) - const_eval_suffix) / 2^subcube_vars) of
\* evaluator k: the least number of subcubes that cover the points before
\* its constant suffix.
EvaluatorSubcubes(k) ==
    LET points == Pow2(call_in.n_vars - 1) - call_in.evaluators[k].suffix
    IN CHOOSE c \in 0..Pow2(call_in.n_vars - 1) :
          /\ c * Pow2(call_in.subcube_vars) >= points
          /\ \A d \in 0..(c - 1) : d * Pow2(call_in.subcube_vars) < points

\* The largest subcube count of the evaluators using multilinear i, zero
\* if none does.
MultilinearSubcubes(i) ==
    LET counts == {EvaluatorSubcubes(k) :
                      k \in {e \in 1..Len(call_in.evaluators) : Uses(e, i)}}
    IN IF counts = {} THEN 0
       ELSE CHOOSE c \in counts : \A d \in counts : d <= c

\* The evaluation of multilinear i at point j of subcube subcube_idx of
\* the half of the hypercube where the round's variable is b.
RestrictedAt(i, b, subcube_idx, j) ==
    LET table == FullTable(call_in.order, call_in.log_width, call_in.n_vars,
                           call_in.tensor_query, call_in.multilinears[i])
        at == subcube_idx * Pow2(call_in.subcube_vars) + j
    IN IF call_in.order = "LowToHigh" THEN table[2 * at + b + 1]
       ELSE table[b * Pow2(call_in.n_vars - 1) + at + 1]

\* C25: in the fold the access method is invoked for multilinear i at
\* subcube_index exactly when subcube_index is below the largest subcube
\* count ceil((2^(n_vars - 1) - const_eval_suffix) / 2^subcube_vars) of the
\* evaluators using i (zero if none), and every evaluator processing the
\* subcube is handed, for each multilinear its composition uses, evals_0
\* and evals_1 read for that same subcube_index.
C25_AccessBySubcubeCount ==
    \A p \in DOMAIN parts :
        (parts[p].last >= 0 /\ parts[p].err = "none") =>
            LET st == parts[p]
                lw == call_in.log_width
            IN /\ \A i \in 1..Len(call_in.multilinears) :
                     (i \in st.accessed) <=> (st.last < MultilinearSubcubes(i))
               /\ \A k \in 1..Len(call_in.evaluators) :
                     \A h \in 1..Len(st.handed) :
                        (/\ st.last < EvaluatorSubcubes(k)
                         /\ RangeContains(call_in.evaluators[k], st.handed[h].point)) =>
                            \A i \in 1..Len(call_in.multilinears) :
                               Uses(k, i) =>
                                  /\ i \in st.accessed
                                  /\ \A j \in Idx(Pow2(call_in.subcube_vars)) :
                                        /\ ScalarAt(lw, st.multilinear_evals[i].evals_0, j)
                                              = RestrictedAt(i, 0, st.last, j)
                                        /\ ScalarAt(lw, st.multilinear_evals[i].evals_1, j)
                                              = RestrictedAt(i, 1, st.last, j)
                                  /\ st.handed[h].point = 0 =>
                                        st.handed[h].batch[i] = st.multilinear_evals[i].evals_0
                                  /\ st.handed[h].point = 1 =>
                                        st.handed[h].batch[i] = st.multilinear_evals[i].evals_1

\* A partition folded a subcube after the first for which one multilinear
\* was read and the other was not, two evaluators with different subcube
\* counts, one of them processing the subcube.
C25_Witness ==
    \E p \in DOMAIN parts :
        /\ parts[p].last >= 1
        /\ parts[p].err = "none"
        /\ Len(call_in.evaluators) = 2
        /\ EvaluatorSubcubes(1) # EvaluatorSubcubes(2)
        /\ parts[p].accessed = {1}
        /\ parts[p].last >= EvaluatorSubcubes(1)
        /\ parts[p].last < EvaluatorSubcubes(2)
        /\ Len(parts[p].handed) >= 3
        /\ RestrictedAt(1, 0, parts[p].last, 0) # RestrictedAt(1, 0, 0, 0)

\* C26 as stated: in the final map entry j of the round evaluations of
\* evaluator k belongs to the point index eval_point_indices_k.start + j,
\* process_constant_eval_suffix is called once for every entry, and the
\* is_infinity_point flag of the call for entry j is true exactly when
\* eval_point_indices_k.start + j = 2, whatever the starts of the
\* evaluators' ranges.
C26_InfinityFlagAlignment ==
    pc = "done" =>
        \A k \in 1..Len(call_in.evaluators) :
            /\ Len(suffix_calls[k]) = Len(result.round_evals[k])
            /\ \A j \in 1..Len(suffix_calls[k]) :
                  suffix_calls[k][j].is_infinity_point
                      <=> (call_in.evaluators[k].lo + (j - 1) = 2)

\* 1 << max(n - LOG_WIDTH, 0)
PackedLen(n) ==
    IF n > call_in.log_width THEN Pow2(n - call_in.log_width) ELSE 1

\* C27: every fold state is sized from subcube_vars alone: evals_0,
\* evals_1 and evals_z of every multilinear have 1 << max(subcube_vars -
\* LOG_WIDTH, 0) packed elements, the scratch buffer has 1 <<
\* max(subcube_vars + 1 - LOG_WIDTH, 0) packed elements under
\* LowToHighAccess and is absent under HighToLowAccess, every evaluator has
\* one accumulator per point of its eval_point_indices; and no access by
\* calculate_round_evals returns NoScratchSpace or
\* IncorrectDestSliceLengths.
C27_FoldStateSizes ==
    /\ result.err \notin {"NoScratchSpace", "IncorrectDestSliceLengths"}
    /\ \A p \in DOMAIN parts :
          LET st == parts[p]
          IN /\ st.err \notin {"NoScratchSpace", "IncorrectDestSliceLengths"}
             /\ Len(st.multilinear_evals) = Len(call_in.multilinears)
             /\ \A i \in 1..Len(st.multilinear_evals) :
                   /\ Len(st.multilinear_evals[i].evals_0) = PackedLen(call_in.subcube_vars)
                   /\ Len(st.multilinear_evals[i].evals_1) = PackedLen(call_in.subcube_vars)
                   /\ Len(st.multilinear_evals[i].evals_z) = PackedLen(call_in.subcube_vars)
             /\ IF call_in.order = "LowToHigh"
                THEN /\ Len(st.scratch_space) = 1
                     /\ Len(st.scratch_space[1]) = PackedLen(call_in.subcube_vars + 1)
                ELSE st.scratch_space = <<>>
             /\ Len(st.round_evals) = Len(call_in.evaluators)
             /\ \A k \in 1..Len(st.round_evals) :
                   Len(st.round_evals[k])
                       = call_in.evaluators[k].hi - call_in.evaluators[k].lo

\* A LowToHigh call on packed elements of two scalars with subcubes of two
\* variables completed: four packed elements of scratch space, two per
\* buffer, every multilinear read.
C27_Witness ==
    /\ pc = "done"
    /\ result.ok
    /\ call_in.order = "LowToHigh"
    /\ call_in.log_width = 1
    /\ call_in.subcube_vars = 2
    /\ \E p \in DOMAIN parts :
          /\ parts[p].last = 0
          /\ parts[p].accessed = {1, 2}
          /\ Len(parts[p].scratch_space[1]) = 4
          /\ Len(parts[p].multilinear_evals[1].evals_0) = 2
          /\ parts[p].multilinear_evals[1].evals_0 # parts[p].multilinear_evals[1].evals_1

(***************************************************************************)
(* Properties of the Groestl arithmetization.                              *)
(***************************************************************************)
\* The value at row z of the linear combination oracle id on the witness
\* columns of its terms.
LinearCombinationAt(b, id, z) ==
    Xor8(b.oracles[id].offset,
         XorBytes([t \in 1..Len(b.oracles[id].terms) |->
                     AesMul(b.oracles[id].terms[t][2],
                            b.witness[b.oracles[id].terms[t][1]][z])]))

PermutationReturnedOk ==
    /\ args.fn = "groestl_p_permutation"
    /\ ret.state = "returned"
    /\ ret.ok

\* C21: after groestl_p_permutation has populated the witness, at every
\* row z the 64 bytes of the output columns are the Groestl-256 P
\* permutation (ten rounds of AddRoundConstant, SubBytes, ShiftBytes,
\* MixBytes) of the 64 bytes of the input columns, and the debug check
\* that compares them never fails.
C21_PermutationMatchesReference ==
    /\ (PermutationReturnedOk /\ args.has_witness) =>
          \A z \in 1..Pow2(args.log_size) :
             /\ WitnessRow(ret.builder.witness, ret.p_in, z)
                   = [i \in 1..STATE_SIZE |-> args.p_in[i][z]]
             /\ WitnessRow(ret.builder.witness, ret.p_out, z)
                   = permutation_p([i \in 1..STATE_SIZE |-> args.p_in[i][z]])
    /\ (args.fn = "groestl_p_permutation" /\ ret.state = "panicked") =>
          args.fail_at \in (STATE_SIZE + 1)..(STATE_SIZE + 8)

\* The permutation of two rows returned; the first row is the block of
\* zeros, whose image begins fe 6b 3f f6.
C21_Witness ==
    /\ PermutationReturnedOk
    /\ args.has_witness
    /\ args.log_size = 1
    /\ \A i \in 1..STATE_SIZE : args.p_in[i][1] = 0
    /\ \E i \in 1..STATE_SIZE : args.p_in[i][2] # 0
    /\ SubSeq(WitnessRow(ret.builder.witness, ret.p_out, 1), 1, 4) = <<254, 107, 63, 246>>
    /\ Len(ret.builder.oracles) = STATE_SIZE + 8 + N_ROUNDS * (9 + 11 * STATE_SIZE)

GroestlRunning == args.fn = "groestl_p_permutation" /\ ret.state = "running"

\* C22: in every round r and for every i in 0..8 the round constant
\* column i is the linear combination input[8i] + r + i * 0x10 of the
\* input column 8i and the constants r and i * 0x10, and its witness holds
\* that sum at every row; the S-box of state position s reads the round
\* constant column s / 8 if s is a multiple of 8 and the input column s,
\* the output of the round before, otherwise.
C22_RoundConstants ==
    GroestlRunning =>
        LET b == ret.builder
        IN /\ ret.phase = "round" =>
                /\ ret.input = ret.output
                /\ \A i \in 0..7 :
                      LET id == ret.round_consts[i + 1]
                          terms == b.oracles[id].terms
                      IN /\ b.oracles[id].kind = "linear_combination"
                         /\ b.oracles[id].offset = 0
                         /\ Len(terms) = 3
                         /\ terms[1] = <<ret.input[8 * i + 1], 1>>
                         /\ terms[2][2] = 1
                         /\ b.oracles[terms[2][1]].kind = "transparent"
                         /\ b.oracles[terms[2][1]].value = ret.round_index
                         /\ terms[3][2] = 1
                         /\ b.oracles[terms[3][1]].kind = "transparent"
                         /\ b.oracles[terms[3][1]].value = i * 16
                         /\ args.has_witness =>
                               \A z \in 1..Pow2(args.log_size) :
                                  /\ b.witness[id][z]
                                        = Xor8(b.witness[ret.input[8 * i + 1]][z],
                                               Xor8(ret.round_index, i * 16))
                                  /\ b.witness[id][z] = LinearCombinationAt(b, id, z)
           /\ (ret.phase = "consts" /\ ret.round_index >= 1) =>
                 \A s \in 0..(STATE_SIZE - 1) :
                    LET c == b.constraints[Len(b.constraints) - 2 * STATE_SIZE + s + 1]
                        read == IF s % 8 = 0 THEN ret.round_consts[(s \div 8) + 1]
                                ELSE ret.input[s + 1]
                    IN /\ c.composition = "SBoxConstraint"
                       /\ c.ids[1] = read
                       /\ args.has_witness =>
                             \A z \in 1..Pow2(args.log_size) :
                                b.witness[ret.p_sub_bytes_out[s + 1]][z]
                                    = s_box(b.witness[read][z])

\* The round constants of round 2 were written for two rows: column 7 is
\* the input column 56 plus 0x72.
C22_Witness ==
    /\ GroestlRunning
    /\ args.has_witness
    /\ args.log_size = 1
    /\ ret.phase = "round"
    /\ ret.round_index = 2
    /\ ret.builder.witness[ret.round_consts[8]][2]
          = Xor8(ret.builder.witness[ret.input[57]][2], 114)
    /\ ret.builder.witness[ret.input[57]] # ret.builder.witness[57]

\* C28: for every round, row z and output position ij, i = ij / 8 and
\* j = ij % 8, the witness of output[ij] is the sum over k of
\* MIX_BYTES_VEC[k] times the witness of p_sub_bytes_out[((i + (j + k) %
\* 8) % 8) * 8 + (j + k) % 8], and the MixColumn constraint registered for
\* ij evaluates to zero on the witness.
C28_ShiftMixAgreesWithConstraint ==
    (GroestlRunning /\ ret.phase = "consts" /\ ret.round_index >= 1
        /\ args.has_witness) =>
        LET b == ret.builder
        IN \A ij \in 0..(STATE_SIZE - 1) :
              LET i == ij \div 8
                  j == ij % 8
                  c == b.constraints[Len(b.constraints) - STATE_SIZE + ij + 1]
              IN /\ c.composition = "MixColumn"
                 /\ Len(c.ids) = 9
                 /\ c.ids[1] = ret.output[ij + 1]
                 /\ \A z \in 1..Pow2(args.log_size) :
                       /\ b.witness[ret.output[ij + 1]][z]
                             = XorBytes([k \in 1..8 |->
                                   AesMul(MIX_BYTES_VEC[k],
                                          b.witness[ret.p_sub_bytes_out[
                                              ((i + ((j + k - 1) % 8)) % 8) * 8
                                                + ((j + k - 1) % 8) + 1]][z])])
                       /\ MixColumn_evaluate([q \in 1..9 |->
                                                 Embed8(b.witness[c.ids[q]][z])])
                             = [ok |-> TRUE, value |-> Embed8(0)]

\* The fourth round wrote output columns for two rows that differ from
\* the S-box outputs they were mixed from.
C28_Witness ==
    /\ GroestlRunning
    /\ args.has_witness
    /\ args.log_size = 1
    /\ ret.phase = "consts"
    /\ ret.round_index = 4
    /\ ret.builder.witness[ret.output[10]][1] # ret.builder.witness[ret.output[10]][2]
    /\ ret.builder.witness[ret.output[10]] # ret.builder.witness[ret.p_sub_bytes_out[10]]

SboxReturnedOk ==
    /\ args.fn = "groestl_p_permutation_sbox"
    /\ ret.state = "returned"
    /\ ret.ok

\* C29: for every byte x of the AES field, the witness of inv is
\* invert_or_zero(x), the witnesses of inv_bits are its basis
\* decomposition (the sum of basis(b) over the set bits is inv), and
\* SBOX_VEC plus the sum of SBOX_MATRIX[b] over the set bits, the value of
\* the output oracle, is the table value s_box(x) written to the output
\* witness; x = 0x53 gives 0xed.
C29_SBoxWitnessAgreesWithOracle ==
    (SboxReturnedOk /\ args.has_witness) =>
        \A z \in 1..Pow2(args.log_size) :
           LET b == ret.builder
               x == args.column[z]
               inv == b.witness[ret.inv][z]
               set_bits == {k \in 1..8 : b.witness[ret.inv_bits[k]][z] = 1}
           IN /\ b.witness[ret.input][z] = x
              /\ IF x = 0 THEN inv = 0 ELSE AesMul(x, inv) = 1
              /\ \A k \in 1..8 : b.witness[ret.inv_bits[k]][z] \in {0, 1}
              /\ LinearCombinationAt(b, ret.inv, z) = inv
              /\ inv = XorBytes([k \in 1..8 |->
                                    IF k \in set_bits THEN basis(k - 1) ELSE 0])
              /\ b.witness[ret.output][z] = s_box(x)
              /\ LinearCombinationAt(b, ret.output, z) = s_box(x)
              /\ s_box(x) = Xor8(SBOX_VEC,
                                 XorBytes([k \in 1..8 |->
                                    IF k \in set_bits THEN SBOX_MATRIX[k] ELSE 0]))
              /\ x = 83 => b.witness[ret.output][z] = 237

\* The S-box of the byte 0x53: the inverse is 0xca, the output 0xed.
C29_Witness ==
    /\ SboxReturnedOk
    /\ args.has_witness
    /\ args.column = <<83>>
    /\ ret.builder.witness[ret.inv] = <<202>>
    /\ ret.builder.witness[ret.output] = <<237>>
    /\ LinearCombinationAt(ret.builder, ret.output, 1) = 237

GroestlReturns ==
    IF args.fn \in {"groestl_p_permutation", "groestl_p_permutation_sbox"}
          /\ ret.state \in {"running", "returned", "panicked"}
    THEN ret.builder.returns
    ELSE <<>>

\* C30 as stated: whenever groestl_p_permutation_sbox,
\* groestl_p_permutation_round or groestl_p_permutation returns, with Ok
\* or with an error of a builder or witness operation, the namespace stack
\* is as deep as when the function was entered.
C30_NamespaceBalancedAlways ==
    \A e \in 1..Len(GroestlReturns) :
        GroestlReturns[e].depth_out = GroestlReturns[e].depth_in

\* C30, amended: the namespace stack is as deep as at entry whenever one
\* of the functions returns Ok, and whenever groestl_p_permutation returns
\* an error raised outside the rounds; an error raised in an S-box or in a
\* round after push_namespace is returned without pop_namespace, the stack
\* one deeper at the return of the function that pushed and one deeper
\* still for a round whose S-box failed.
C30_NamespaceBalancedOnOk ==
    \A e \in 1..Len(GroestlReturns) :
        LET r == GroestlReturns[e]
        IN /\ r.ok => r.depth_out = r.depth_in
           /\ (~r.ok /\ r.fn = "groestl_p_permutation_sbox") =>
                 r.depth_out = r.depth_in + 1
           /\ (~r.ok /\ r.fn = "groestl_p_permutation_round") =>
                 r.depth_out \in {r.depth_in + 1, r.depth_in + 2}
           /\ (~r.ok /\ r.fn = "permutation_round_consts") =>
                 r.depth_out = r.depth_in
           /\ (~r.ok /\ r.fn = "groestl_p_permutation") =>
                 r.depth_out \in {r.depth_in, r.depth_in + 1, r.depth_in + 2}

\* S-boxes of a round returned Ok with the stack as at entry, then one
\* failed and the round and the permutation returned its error with two
\* names left on the stack.
C30_Witness ==
    /\ args.fn = "groestl_p_permutation"
    /\ ret.state = "returned"
    /\ ~ret.ok
    /\ Len(ret.builder.namespace) = 2
    /\ \E e \in 1..Len(GroestlReturns) :
          /\ GroestlReturns[e].fn = "groestl_p_permutation_sbox"
          /\ GroestlReturns[e].ok
          /\ GroestlReturns[e].depth_in = 1
          /\ GroestlReturns[e].depth_out = 1
    /\ \E e \in 1..Len(GroestlReturns) :
          /\ GroestlReturns[e].fn = "groestl_p_permutation_round"
          /\ ~GroestlReturns[e].ok
          /\ GroestlReturns[e].depth_out = GroestlReturns[e].depth_in + 2

=============================================================================
